---- MODULE Spec2Model ----
(***************************************************************************)
(* Model of the sweep orchestration engine of the ChipSHOUTER GUI:         *)
(* workers/sweep_worker.py (SweepWorker) and the constants of config.py.   *)
(*                                                                         *)
(* Python values are encoded as follows.  A str (and the bytes of a raw    *)
(* serial line) is a sequence of tokens, each token a TLA+ string; the     *)
(* empty str is << >>.  None is the one-token sequence NoneVal, whose      *)
(* token occurs in no line of the link.  A dict of str to str is a         *)
(* function from keys to values.                                           *)
(***************************************************************************)
EXTENDS Integers, Sequences, FiniteSets, TLC

\* ------------------------------------------------------------------------
\* Bounds of the model
\* ------------------------------------------------------------------------
\* longest stream of readline() results drawn for one exchange
MaxReads == 4
\* most values on one sweep axis
MaxLevels == 2
\* most pulses per grid point
MaxPulses == 3
\* most trials (grid points times pulses per point) in one run
MaxTrials == 4
\* largest grid whose exchanges are run against every link behaviour
RichPoints == 2
\* most values on one axis of the grids built on their own
MaxGridLevels == 5
\* largest of the grids built on their own
MaxGridPoints == 30

\* ------------------------------------------------------------------------
\* Strings of the target protocol
\* ------------------------------------------------------------------------
\* config.KW45_RESET_MARKER
KW45_RESET_MARKER == <<"KW45 Ready. Waiting for commands...">>

\* the literal "--- DATA_START ---"
DATA_START == <<"--- DATA_START ---">>

\* the literal "--- DATA_END ---"
DATA_END == <<"--- DATA_END ---">>

\* the literal "ERROR:": the word and a colon
ERROR_MARK == <<"ERROR", ":">>

\* the literal ":"
COLON == ":"

\* a byte that is not valid UTF-8
InvalidByte == "<0xFF>"

\* what str.strip() removes
Whitespace == {" ", "\t", "\r", "\n"}

\* Python's None
NoneVal == <<"<None>">>

\* the key "CT" of the response mapping
CT_KEY == <<"CT">>

\* the key "_reset" of the reset indication
RESET_KEY == <<"_reset">>

\* ------------------------------------------------------------------------
\* str operations used by _target_exchange
\* ------------------------------------------------------------------------
\* raw.decode("utf-8", errors="ignore"): invalid bytes are dropped
Decode(raw) ==
    SelectSeq(raw, LAMBDA b : b # InvalidByte)

RECURSIVE LStrip(_)
\* leading whitespace removed
LStrip(s) ==
    IF s # << >> /\ Head(s) \in Whitespace THEN LStrip(Tail(s)) ELSE s

RECURSIVE RStrip(_)
\* trailing whitespace removed
RStrip(s) ==
    IF s # << >> /\ s[Len(s)] \in Whitespace
    THEN RStrip(SubSeq(s, 1, Len(s) - 1))
    ELSE s

\* str.strip()
Strip(s) ==
    RStrip(LStrip(s))

\* pat in line (substring test)
Contains(line, pat) ==
    \E i \in 1..(Len(line) - Len(pat) + 1) :
        SubSeq(line, i, i + Len(pat) - 1) = pat

RECURSIVE Find(_, _, _)
\* index of the first occurrence of token c in s at or after i, 0 if none
Find(s, c, i) ==
    IF i > Len(s) THEN 0
    ELSE IF s[i] = c THEN i
    ELSE Find(s, c, i + 1)

\* line.split(":", 1): the parts before and after the first colon
SplitColon(line) ==
    LET i == Find(line, COLON, 1)
    IN  IF i = 0 THEN <<line>>
        ELSE <<SubSeq(line, 1, i - 1), SubSeq(line, i + 1, Len(line))>>

\* data[key] = val on a dict
DictPut(data, key, val) ==
    [k \in (DOMAIN data) \cup {key} |-> IF k = key THEN val ELSE data[k]]

\* the empty dict
EmptyDict == << >>

\* ------------------------------------------------------------------------
\* Return values of _target_exchange
\* ------------------------------------------------------------------------
\* None: error or timeout
RespNone == [kind |-> "None", data |-> EmptyDict]

\* {'_reset': True}
RespReset == [kind |-> "Reset", data |-> EmptyDict]

\* a dict of parsed fields
RespData(data) == [kind |-> "Data", data |-> data]

\* no value yet: _target_exchange has not returned
RespPending == [kind |-> "Pending", data |-> EmptyDict]

\* LineStep with the DATA_END and ERROR: tests ahead of the reset marker
LineStep_EndBeforeMarker(line, collecting, data) ==
    IF Contains(line, DATA_START)
    THEN [ret |-> FALSE, resp |-> RespNone, collecting |-> TRUE, data |-> data]
    ELSE IF Contains(line, DATA_END)
    THEN [ret |-> TRUE, resp |-> RespData(data), collecting |-> collecting, data |-> data]
    ELSE IF Contains(line, ERROR_MARK)
    THEN [ret |-> TRUE, resp |-> RespNone, collecting |-> collecting, data |-> data]
    ELSE IF Contains(line, KW45_RESET_MARKER)
    THEN [ret |-> TRUE, resp |-> RespReset, collecting |-> collecting, data |-> data]
    ELSE [ret |-> FALSE, resp |-> RespNone, collecting |-> collecting,
          data |-> IF collecting /\ Contains(line, <<COLON>>)
                   THEN DictPut(data, Strip(SplitColon(line)[1]), Strip(SplitColon(line)[2]))
                   ELSE data]

\* LineStep that records KEY:VALUE lines whether or not DATA_START was seen
LineStep_RecordsAlways(line, collecting, data) ==
    IF Contains(line, KW45_RESET_MARKER)
    THEN [ret |-> TRUE, resp |-> RespReset, collecting |-> collecting, data |-> data]
    ELSE IF Contains(line, DATA_START)
    THEN [ret |-> FALSE, resp |-> RespNone, collecting |-> TRUE, data |-> data]
    ELSE IF Contains(line, DATA_END)
    THEN [ret |-> TRUE, resp |-> RespData(data), collecting |-> collecting, data |-> data]
    ELSE IF Contains(line, ERROR_MARK)
    THEN [ret |-> TRUE, resp |-> RespNone, collecting |-> collecting, data |-> data]
    ELSE [ret |-> FALSE, resp |-> RespNone, collecting |-> collecting,
          data |-> IF Contains(line, <<COLON>>)
                   THEN DictPut(data, Strip(SplitColon(line)[1]), Strip(SplitColon(line)[2]))
                   ELSE data]

\* the body of the read loop for one non-blank decoded line: what the loop
\* does next, as [ret, resp, collecting, data]
LineStep(line, collecting, data) ==
    IF Contains(line, KW45_RESET_MARKER)
    THEN [ret |-> TRUE, resp |-> RespReset, collecting |-> collecting, data |-> data]
    ELSE IF Contains(line, DATA_START)
    THEN [ret |-> FALSE, resp |-> RespNone, collecting |-> TRUE, data |-> data]
    ELSE IF Contains(line, DATA_END)
    THEN [ret |-> TRUE, resp |-> RespData(data), collecting |-> collecting, data |-> data]
    ELSE IF Contains(line, ERROR_MARK)
    THEN [ret |-> TRUE, resp |-> RespNone, collecting |-> collecting, data |-> data]
    ELSE IF collecting /\ Contains(line, <<COLON>>)
    THEN LET parts == SplitColon(line)
         IN  [ret |-> FALSE, resp |-> RespNone, collecting |-> collecting,
              data |-> IF Len(parts) = 2
                       THEN DictPut(data, Strip(parts[1]), Strip(parts[2]))
                       ELSE data]
    ELSE [ret |-> FALSE, resp |-> RespNone, collecting |-> collecting, data |-> data]

RECURSIVE ReadLoop_PartialOnError(_, _, _, _, _)
\* ReadLoop whose exception handler hands back what was collected
ReadLoop_PartialOnError(reads, tail, i, collecting, data) ==
    IF i > Len(reads)
    THEN IF DOMAIN data # {} THEN RespData(data) ELSE RespNone
    ELSE LET raw == reads[i]
             line == Strip(Decode(raw))
         IN  IF raw = << >> \/ line = << >>
             THEN ReadLoop_PartialOnError(reads, tail, i + 1, collecting, data)
             ELSE LET s == LineStep(line, collecting, data)
                  IN  IF s.ret THEN s.resp
                      ELSE ReadLoop_PartialOnError(reads, tail, i + 1, s.collecting, s.data)

RECURSIVE ReadLoop(_, _, _, _, _)
\* the while loop of _target_exchange over the readline() results `reads`
\* obtained inside the 3.0 s window; `tail` is what ends the window:
\* "timeout" (the clock runs out) or "error" (readline raises)
ReadLoop(reads, tail, i, collecting, data) ==
    IF i > Len(reads)
    THEN IF tail = "error" THEN RespNone
         ELSE IF DOMAIN data # {} THEN RespData(data) ELSE RespNone
    ELSE LET raw == reads[i]
             line == Strip(Decode(raw))
         IN  IF raw = << >> \/ line = << >>
             THEN ReadLoop(reads, tail, i + 1, collecting, data)
             ELSE LET s == LineStep(line, collecting, data)
                  IN  IF s.ret THEN s.resp
                      ELSE ReadLoop(reads, tail, i + 1, s.collecting, s.data)

\* _target_exchange(ser) on the link behaviour x = [open_ok, reads, tail]:
\* open_ok is whether reset_input_buffer() and write(b"START\r\n") succeed
TargetExchange(x) ==
    IF ~x.open_ok THEN RespNone
    ELSE ReadLoop(x.reads, x.tail, 1, FALSE, EmptyDict)

\* resp.get("_reset") is truthy
IsReset(resp) ==
    \/ resp.kind = "Reset"
    \/ /\ resp.kind = "Data"
       /\ RESET_KEY \in DOMAIN resp.data
       /\ resp.data[RESET_KEY] # << >>

\* resp.get("CT", "")
GetCT(resp) ==
    IF resp.kind = "Data" /\ CT_KEY \in DOMAIN resp.data
    THEN resp.data[CT_KEY]
    ELSE << >>

\* ------------------------------------------------------------------------
\* State
\* ------------------------------------------------------------------------
VARIABLES
    pc,                        \* position of the worker thread in start_sweep
    config,                    \* the config dict passed to start_sweep
    target_serial,             \* the link handle passed: "None", "closed", "open"
    dev,                       \* the pulse device behind self.cs
    stop_requested,            \* self._stop_requested
    is_running,                \* self.is_running
    results,                   \* self.results
    reset_count,               \* self.reset_count
    warned_no_trigger_offset,  \* self._warned_no_trigger_offset
    loc,                       \* the local variables of start_sweep
    events,                    \* the signals emitted so far, in order
    logs,                      \* how often each tracked log line was emitted
    obs,                       \* history of the run (observations only)
    x_in,                      \* exchange on its own: the link behaviour
    x_resp,                    \* exchange on its own: the value returned
    gui                        \* the main window: its flags, timers and queues

vars == <<pc, config, target_serial, dev, stop_requested, is_running, results,
          reset_count, warned_no_trigger_offset, loc, events, logs, obs,
          x_in, x_resp, gui>>

engine_vars == <<pc, config, target_serial, dev, stop_requested, is_running,
                 results, reset_count, warned_no_trigger_offset, loc, events,
                 logs, obs>>

\* ------------------------------------------------------------------------
\* Grid construction (start_sweep, "Build sweep grid")
\* ------------------------------------------------------------------------
\* max(a, b)
Max(a, b) == IF a >= b THEN a ELSE b

\* range(start, end, step) where range(start, end + 1, step) is meant: the
\* stop value handed in is taken one too low
Range_EndExcluded(start, stop, step) ==
    IF stop - 1 <= start THEN << >>
    ELSE [k \in 1..(((stop - start - 2) \div step) + 1) |-> start + (k - 1) * step]

\* list(range(start, stop, step)) for step >= 1
Range(start, stop, step) ==
    IF stop <= start THEN << >>
    ELSE [k \in 1..(((stop - start - 1) \div step) + 1) |-> start + (k - 1) * step]

\* the list voltages
Voltages(cfg) ==
    IF "voltage" \in cfg.sweep_axes
    THEN Range(cfg.v_start, cfg.v_end + 1, Max(1, cfg.v_step))
    ELSE <<cfg.v_start>>

\* the list pulse_widths
PulseWidths(cfg) ==
    IF "pulse_width" \in cfg.sweep_axes
    THEN Range(cfg.pw_start, cfg.pw_end + 1, Max(1, cfg.pw_step))
    ELSE <<cfg.pw_start>>

\* the list delays
Delays(cfg) ==
    IF "delay" \in cfg.sweep_axes
    THEN LET d == Range(cfg.delay_start, cfg.delay_end + 1, Max(1, cfg.delay_step))
         IN  IF d = << >> THEN <<0>> ELSE d
    ELSE <<cfg.delay_start>>

\* total = len(voltages) * len(pulse_widths) * len(delays)
Total(cfg) ==
    Len(Voltages(cfg)) * Len(PulseWidths(cfg)) * Len(Delays(cfg))

\* ------------------------------------------------------------------------
\* Inputs: configurations and link behaviours
\* ------------------------------------------------------------------------
\* config.SWEEP_V_START
SWEEP_V_START == 200
\* config.SWEEP_V_STEP
SWEEP_V_STEP == 50
\* config.SWEEP_PW_START
SWEEP_PW_START == 80
\* config.SWEEP_PW_STEP
SWEEP_PW_STEP == 40
\* config.SWEEP_DELAY_START
SWEEP_DELAY_START == 0
\* config.SWEEP_DELAY_STEP
SWEEP_DELAY_STEP == 5
\* config.SWEEP_PULSE_REPEAT
SWEEP_PULSE_REPEAT == 1
\* config.SWEEP_DEADTIME
SWEEP_DEADTIME == 10
\* range(3) of _safe_disarm
DISARM_ATTEMPTS == 3
\* range(3) of _try_clear_and_arm
ARM_ATTEMPTS == 3

\* the three sweep axes
AllAxes == {"voltage", "pulse_width", "delay"}

\* a config dict: every range spans MaxLevels values, the axes select
MakeConfig(axes, n) ==
    [sweep_axes |-> axes,
     v_start |-> SWEEP_V_START,
     v_end |-> SWEEP_V_START + SWEEP_V_STEP * (MaxLevels - 1),
     v_step |-> SWEEP_V_STEP,
     pw_start |-> SWEEP_PW_START,
     pw_end |-> SWEEP_PW_START + SWEEP_PW_STEP * (MaxLevels - 1),
     pw_step |-> SWEEP_PW_STEP,
     delay_start |-> SWEEP_DELAY_START,
     delay_end |-> SWEEP_DELAY_START + SWEEP_DELAY_STEP * (MaxLevels - 1),
     delay_step |-> SWEEP_DELAY_STEP,
     pulses_per_point |-> n,
     pulse_repeat |-> SWEEP_PULSE_REPEAT,
     deadtime |-> SWEEP_DEADTIME]

\* the configurations a run is started with
Configs ==
    {c \in {MakeConfig(axes, n) : axes \in SUBSET AllAxes, n \in 1..MaxPulses} :
        /\ Total(c) * c.pulses_per_point <= MaxTrials
        /\ (Total(c) = 1 \/ c.pulses_per_point = 1)}

\* raw lines the target sends (bytes as read by readline)
LineStart == <<"--- DATA_START ---", "\r", "\n">>
LineEnd == <<"--- DATA_END ---", "\r", "\n">>
LineCtAA == <<"CT", ":", "AA", "\r", "\n">>
LineCtBB == <<"CT", ":", "BB", "\r", "\n">>
LineCtEmpty == <<"CT", ":", "\r", "\n">>
LineReset == <<"KW45 Ready. Waiting for commands...", "\r", "\n">>
LineError == <<"ERROR", ":", "5", "\r", "\n">>
LineBlank == <<" ", "\r", "\n">>
LineChatter == <<"boot", "\r", "\n">>
LineCtBBDirty == <<"CT", ":", InvalidByte, "BB", "\r", "\n">>
LinePadded == <<" ", "PT", " ", ":", " ", "A", ":", "B", " ", "\r", "\n">>
LineEndReset == <<"--- DATA_END ---", " ", "KW45 Ready. Waiting for commands...", "\r", "\n">>
LineStartError == <<"--- DATA_START ---", " ", "ERROR", ":", "5", "\r", "\n">>
LineResetField == <<"_reset", ":", "1", "\r", "\n">>

\* what one readline() may return: nothing (its timeout passed) or a line
RawLines ==
    { << >>, LineBlank, LineChatter, LineStart, LineEnd, LineCtAA,
      LineCtBBDirty, LineCtEmpty, LinePadded, LineReset, LineEndReset,
      LineError, LineStartError }

\* a link behaviour during one exchange
Link(open_ok, reads, tail) ==
    [open_ok |-> open_ok, reads |-> reads, tail |-> tail]

\* the link behaviours the engine's exchanges are run against
EngineLinks ==
    { Link(TRUE, <<LineStart, LineCtAA, LineEnd>>, "timeout"),
      Link(TRUE, <<LineStart, LineCtBB, LineEnd>>, "timeout"),
      Link(TRUE, <<LineStart, LineCtEmpty, LineEnd>>, "timeout"),
      Link(TRUE, <<LineStart, LineEnd>>, "timeout"),
      Link(TRUE, <<LineStart, LineCtAA>>, "timeout"),
      Link(TRUE, <<LineStart, LinePadded>>, "timeout"),
      Link(TRUE, <<LineStart, LineResetField, LineCtAA, LineEnd>>, "timeout"),
      Link(TRUE, <<LineReset>>, "timeout"),
      Link(TRUE, <<LineStart, LineCtAA, LineReset>>, "timeout"),
      Link(TRUE, <<LineError>>, "timeout"),
      Link(TRUE, << >>, "timeout"),
      Link(TRUE, <<LineStart>>, "error"),
      Link(FALSE, << >>, "error") }

\* on larger grids: the target answers with the same ciphertext or is silent
CoreLinks ==
    { Link(TRUE, <<LineStart, LineCtAA, LineEnd>>, "timeout"),
      Link(TRUE, << >>, "timeout") }

\* the link behaviours of the exchanges of a run with configuration cfg
LinksFor(cfg) ==
    IF Total(cfg) <= RichPoints THEN EngineLinks ELSE CoreLinks

\* how one operation on the pulse device ends: it succeeds, raises an
\* ordinary exception, or raises Reset_Exception (the device power-cycled)
Outcomes == {"ok", "error", "reset"}

\* the device after an operation that raised: an ordinary failure leaves it
\* as it was, a device reset leaves it disarmed
DevRaised(d, outcome) ==
    IF outcome = "reset" THEN [d EXCEPT !.armed = FALSE] ELSE d

\* ------------------------------------------------------------------------
\* Signals
\* ------------------------------------------------------------------------
\* the numbers of the summary text: step/total points, glitches in
\* sensitive points, resets
Summary(step, total, total_g, sensitive, total_r) ==
    [step |-> step, total |-> total, total_g |-> total_g,
     sensitive |-> sensitive, total_r |-> total_r]

\* an event that carries no summary
NoSummary == Summary(0, 0, 0, 0, 0)

\* result_signal.emit(result): idx is the place of the result in self.results,
\* step the point index, trials the exchanges the point's pulse loop completed
EvResult(step, idx, trials) ==
    [sig |-> "result", step |-> step, idx |-> idx, trials |-> trials,
     tag |-> "", sum |-> NoSummary]

\* progress_signal.emit(step, total, info)
EvProgress(step) ==
    [sig |-> "progress", step |-> step, idx |-> 0, trials |-> 0,
     tag |-> "", sum |-> NoSummary]

\* sweep_finished.emit(prefix + ...): the prefix and the numbers of the text
EvFinished(tag, sum) ==
    [sig |-> "finished", step |-> sum.step, idx |-> 0, trials |-> 0,
     tag |-> tag, sum |-> sum]

\* log_signal.emit of one of the tracked lines
LogEmit(l, kind) ==
    [l EXCEPT ![kind] = @ + 1]

\* the log lines the model keeps count of
LogKinds == {"no_target", "no_baseline", "no_trigger_offset"}

\* bool(x) of a str or None
Truthy(x) == x # NoneVal /\ x # << >>

\* ------------------------------------------------------------------------
\* Initial state: SweepWorker.__init__, and a start request with its inputs
\* ------------------------------------------------------------------------
\* the locals of start_sweep before the grid loop
LocInit ==
    [baseline_ct |-> NoneVal, step |-> 0, vi |-> 0, pwi |-> 0, di |-> 0,
     glitch |-> 0, error |-> 0, normal |-> 0, reset |-> 0, last_ct |-> << >>,
     pulse_idx |-> 0, attempt |-> 0]

\* no attempt of _try_clear_and_arm made at the current point; otherwise
\* the history keeps how the last attempt ended: "ok", "error" or "reset"
\* (for _safe_disarm, which treats all failures alike: "ok" or "failed");
\* burst_writes counts the executions of the block that writes pulse.repeat,
\* pulse.deadtime and mute
NoAttempt == "none"

\* nothing observed yet
ObsInit ==
    [dev_touched |-> FALSE, link_touched |-> FALSE, trials_done |-> 0,
     abandoned |-> 0, stop_at |-> "none", stop_nres |-> 0, stop_step |-> 0,
     exch_after_stop |-> 0, points_after_stop |-> 0,
     rebaselines |-> 0, rearms |-> 0, rearm_failed |-> FALSE,
     setup_failed |-> FALSE, arm_ok |-> FALSE, arm_last |-> NoAttempt,
     disarm_last |-> NoAttempt, burst_writes |-> 0]

\* the pulse devices a run may be handed: armed or not, with or without a
\* trigger.offset attribute (which only a delay sweep looks at); the burst
\* registers (repeat, deadtime, mute) are written once and never read
Devices(cfg) ==
    [armed : BOOLEAN,
     has_offset : IF "delay" \in cfg.sweep_axes THEN BOOLEAN ELSE {TRUE},
     voltage : {0}, width : {0}, offset : {0}]

\* no port: None of api_port and terminal_port, "" of current_port
NoPort == "none"

\* MainWindow.__init__: nothing connected, no timer started, no sweep asked
\* for; the last four fields are history (requests emitted and delivered,
\* terminal signals handled, what happened since the last start request)
GuiInit ==
    [api_connected |-> FALSE, terminal_connected |-> FALSE,
     is_connected |-> FALSE, sweep_running |-> FALSE,
     fault_timer |-> FALSE, arm_state_timer |-> FALSE,
     serial_timer |-> FALSE, repeat_send_timer |-> FALSE,
     start_emitted |-> 0, start_delivered |-> 0, finished_seen |-> 0,
     commanded |-> FALSE, stop_clicked |-> FALSE,
     api_port |-> NoPort, terminal_port |-> NoPort, api_busy |-> FALSE,
     w_connected |-> FALSE, w_port |-> NoPort,
     to_worker |-> << >>, to_gui |-> << >>]

InitEngine ==
    /\ pc = "idle"
    /\ config \in Configs
    /\ target_serial \in {"None", "closed", "open"}
    /\ dev \in Devices(config)
    /\ stop_requested = FALSE
    /\ is_running = FALSE
    /\ results = << >>
    /\ reset_count = 0
    /\ warned_no_trigger_offset = FALSE
    /\ loc = LocInit
    /\ events = << >>
    /\ logs = [k \in LogKinds |-> 0]
    /\ obs = ObsInit

Init ==
    /\ InitEngine
    /\ x_in = Link(TRUE, << >>, "timeout")
    /\ x_resp = RespPending
    /\ gui = GuiInit

\* the loop variables v, pw, delay_us of the current grid point
CurV == Voltages(config)[loc.vi]
CurPW == PulseWidths(config)[loc.pwi]
CurDelay == Delays(config)[loc.di]

\* where in start_sweep the worker is: between two grid points (at the loop
\* heads), inside a point before its pulse loop, inside the pulse loop, or
\* outside the grid loops
Phase(p) ==
    CASE p \in {"v_loop", "pw_loop", "d_loop"} -> "between"
      [] p \in {"disarm", "set_voltage", "set_width", "set_offset", "arm"} -> "setup"
      [] p \in {"trial_check", "exchange", "rebaseline", "rearm", "aggregate"} -> "trials"
      [] p \in {"final_disarm", "finish"} -> "final"
      [] OTHER -> "outside"

\* ------------------------------------------------------------------------
\* stop_sweep, called from the GUI thread at any time
\* ------------------------------------------------------------------------
StopSweep ==
    /\ stop_requested' = TRUE
    /\ obs' = IF stop_requested THEN obs
              ELSE [obs EXCEPT !.stop_at = Phase(pc), !.stop_nres = Len(results),
                               !.stop_step = loc.step]
    /\ UNCHANGED <<pc, config, target_serial, dev, is_running, results,
                   reset_count, warned_no_trigger_offset, loc, events, logs,
                   x_in, x_resp, gui>>

\* ------------------------------------------------------------------------
\* start_sweep
\* ------------------------------------------------------------------------
\* StartSweep that leaves the warning flag of the previous run in place
StartSweep_KeepsWarningFlag ==
    /\ pc = "idle"
    /\ stop_requested' = FALSE
    /\ is_running' = TRUE
    /\ results' = << >>
    /\ reset_count' = 0
    /\ warned_no_trigger_offset' = warned_no_trigger_offset
    /\ obs' = ObsInit
    /\ pc' = "precheck"
    /\ UNCHANGED <<config, target_serial, dev, loc, events, logs, x_in, x_resp, gui>>

\* entry: the per-run fields are reset
StartSweep ==
    /\ pc = "idle"
    /\ stop_requested' = FALSE
    /\ is_running' = TRUE
    /\ results' = << >>
    /\ reset_count' = 0
    /\ warned_no_trigger_offset' = FALSE
    /\ obs' = ObsInit
    /\ pc' = "precheck"
    /\ UNCHANGED <<config, target_serial, dev, loc, events, logs, x_in, x_resp, gui>>

\* Precheck without the test of the link: the run goes on in any case
Precheck_NoCheck ==
    /\ pc = "precheck"
    /\ pc' = "fixed"
    /\ UNCHANGED <<config, target_serial, dev, stop_requested, is_running,
                   results, reset_count, warned_no_trigger_offset, loc, events,
                   logs, obs, x_in, x_resp, gui>>

\* the check of the target link; the grid is built from config on success
Precheck ==
    /\ pc = "precheck"
    /\ IF target_serial # "open"
       THEN /\ logs' = LogEmit(logs, "no_target")
            /\ is_running' = FALSE
            /\ events' = Append(events, EvFinished("ABORTED", NoSummary))
            /\ pc' = "done"
       ELSE /\ pc' = "fixed"
            /\ UNCHANGED <<logs, is_running, events>>
    /\ UNCHANGED <<config, target_serial, dev, stop_requested, results,
                   reset_count, warned_no_trigger_offset, loc, obs, x_in, x_resp, gui>>

\* the fixed parameters: the three writes (repeat, deadtime, mute) succeed,
\* or one of them raises and the rest is skipped
FixedParams ==
    /\ pc = "fixed"
    /\ \E o \in Outcomes : dev' = DevRaised(dev, o)
    /\ obs' = [obs EXCEPT !.dev_touched = TRUE, !.burst_writes = @ + 1]
    /\ pc' = "clear_faults"
    /\ UNCHANGED <<config, target_serial, stop_requested, is_running, results,
                   reset_count, warned_no_trigger_offset, loc, events, logs,
                   x_in, x_resp, gui>>

\* the initial clear of the faults
InitialClear ==
    /\ pc = "clear_faults"
    /\ \E o \in Outcomes : dev' = DevRaised(dev, o)
    /\ obs' = [obs EXCEPT !.dev_touched = TRUE]
    /\ pc' = "baseline"
    /\ UNCHANGED <<config, target_serial, stop_requested, is_running, results,
                   reset_count, warned_no_trigger_offset, loc, events, logs,
                   x_in, x_resp, gui>>

\* _setup_target_mode(ser, mode): mode_ok is whether the MODE write (and the
\* buffer resets around it) succeed, x the link's behaviour in the exchange
SetupTargetMode(mode_ok, x) ==
    IF ~mode_ok THEN NoneVal
    ELSE LET resp == TargetExchange(x)
         IN  IF /\ resp.kind = "Data"
                /\ CT_KEY \in DOMAIN resp.data
                /\ ~IsReset(resp)
             THEN resp.data[CT_KEY]
             ELSE NoneVal

\* the baseline step before the grid loop
Baseline ==
    /\ pc = "baseline"
    /\ \E mode_ok \in BOOLEAN, x \in LinksFor(config) :
        LET bl == SetupTargetMode(mode_ok, x)
        IN  /\ loc' = [LocInit EXCEPT !.baseline_ct = bl]
            /\ logs' = IF bl = NoneVal /\ ~stop_requested
                       THEN LogEmit(logs, "no_baseline") ELSE logs
    /\ obs' = [obs EXCEPT !.link_touched = TRUE]
    /\ pc' = "v_loop"
    /\ UNCHANGED <<config, target_serial, dev, stop_requested, is_running,
                   results, reset_count, warned_no_trigger_offset, events,
                   x_in, x_resp, gui>>

\* ------------------------------------------------------------------------
\* The grid loops: for v / for pw / for delay_us, each with its stop check
\* ------------------------------------------------------------------------
\* for v in voltages: the next v, or the loop is over (or broken by stop)
VLoop ==
    /\ pc = "v_loop"
    /\ IF loc.vi = Len(Voltages(config)) \/ stop_requested
       THEN /\ pc' = "final_disarm"
            /\ loc' = [loc EXCEPT !.attempt = 0]
       ELSE /\ pc' = "pw_loop"
            /\ loc' = [loc EXCEPT !.vi = @ + 1, !.pwi = 0]
    /\ UNCHANGED <<config, target_serial, dev, stop_requested, is_running,
                   results, reset_count, warned_no_trigger_offset, events, logs,
                   obs, x_in, x_resp, gui>>

\* for pw in pulse_widths
PwLoop ==
    /\ pc = "pw_loop"
    /\ IF loc.pwi = Len(PulseWidths(config)) \/ stop_requested
       THEN /\ pc' = "v_loop"
            /\ UNCHANGED loc
       ELSE /\ pc' = "d_loop"
            /\ loc' = [loc EXCEPT !.pwi = @ + 1, !.di = 0]
    /\ UNCHANGED <<config, target_serial, dev, stop_requested, is_running,
                   results, reset_count, warned_no_trigger_offset, events, logs,
                   obs, x_in, x_resp, gui>>

\* DLoop without its stop check: the next delay is taken in any case
DLoop_NoStopCheck ==
    /\ pc = "d_loop"
    /\ IF loc.di = Len(Delays(config))
       THEN /\ pc' = "pw_loop"
            /\ UNCHANGED <<loc, obs>>
       ELSE /\ pc' = "disarm"
            /\ loc' = [loc EXCEPT !.di = @ + 1, !.step = @ + 1, !.attempt = 0]
            /\ obs' = [obs EXCEPT !.trials_done = 0,
                                  !.rebaselines = 0,
                                  !.rearms = 0,
                                  !.rearm_failed = FALSE,
                                  !.setup_failed = FALSE,
                                  !.arm_last = NoAttempt,
                                  !.points_after_stop =
                                      IF stop_requested THEN @ + 1 ELSE @]
    /\ UNCHANGED <<config, target_serial, dev, stop_requested, is_running,
                   results, reset_count, warned_no_trigger_offset, events, logs,
                   x_in, x_resp, gui>>

\* for delay_us in delays: a grid point begins when the check passes
DLoop ==
    /\ pc = "d_loop"
    /\ IF loc.di = Len(Delays(config)) \/ stop_requested
       THEN /\ pc' = "pw_loop"
            /\ UNCHANGED <<loc, obs>>
       ELSE /\ pc' = "disarm"
            /\ loc' = [loc EXCEPT !.di = @ + 1, !.step = @ + 1, !.attempt = 0]
            /\ obs' = [obs EXCEPT !.trials_done = 0,
                                  !.rebaselines = 0,
                                  !.rearms = 0,
                                  !.rearm_failed = FALSE,
                                  !.setup_failed = FALSE,
                                  !.arm_last = NoAttempt,
                                  !.points_after_stop =
                                      IF stop_requested THEN @ + 1 ELSE @]
    /\ UNCHANGED <<config, target_serial, dev, stop_requested, is_running,
                   results, reset_count, warned_no_trigger_offset, events, logs,
                   x_in, x_resp, gui>>

\* ------------------------------------------------------------------------
\* _safe_disarm: one pass of its retry loop (one attempt)
\* ------------------------------------------------------------------------
\* SafeDisarmAttempt that catches ordinary failures only: a device reset
\* is raised to start_sweep
SafeDisarmAttempt_ResetPropagates(at, ret, o) ==
    /\ pc = at
    /\ obs' = [obs EXCEPT !.dev_touched = TRUE, !.arm_ok = FALSE,
                          !.disarm_last = IF o = "ok" THEN "ok" ELSE "failed"]
    /\ IF o = "ok"
       THEN /\ dev' = [dev EXCEPT !.armed = FALSE]
            /\ loc' = [loc EXCEPT !.attempt = 0]
            /\ pc' = ret
       ELSE IF o = "reset"
       THEN /\ dev' = DevRaised(dev, o)
            /\ loc' = loc
            /\ pc' = "raised"
       ELSE /\ dev' = DevRaised(dev, o)
            /\ IF loc.attempt + 1 < DISARM_ATTEMPTS
               THEN /\ loc' = [loc EXCEPT !.attempt = @ + 1]
                    /\ pc' = at
               ELSE /\ loc' = [loc EXCEPT !.attempt = 0]
                    /\ pc' = ret
    /\ UNCHANGED <<config, target_serial, stop_requested, is_running, results,
                   reset_count, warned_no_trigger_offset, events, logs,
                   x_in, x_resp, gui>>

\* the attempt with outcome o at call site `at`, returning to `ret`
SafeDisarmAttempt(at, ret, o) ==
    /\ pc = at
    /\ obs' = [obs EXCEPT !.dev_touched = TRUE, !.arm_ok = FALSE,
                          !.disarm_last = IF o = "ok" THEN "ok" ELSE "failed"]
    /\ IF o = "ok"
       THEN /\ dev' = [dev EXCEPT !.armed = FALSE]
            /\ loc' = [loc EXCEPT !.attempt = 0]
            /\ pc' = ret
       ELSE /\ dev' = DevRaised(dev, o)
            /\ IF loc.attempt + 1 < DISARM_ATTEMPTS
               THEN /\ loc' = [loc EXCEPT !.attempt = @ + 1]
                    /\ pc' = at
               ELSE /\ loc' = [loc EXCEPT !.attempt = 0]
                    /\ pc' = ret
    /\ UNCHANGED <<config, target_serial, stop_requested, is_running, results,
                   reset_count, warned_no_trigger_offset, events, logs,
                   x_in, x_resp, gui>>

\* 1) disarm before changing parameters
PointDisarm ==
    \E o \in Outcomes : SafeDisarmAttempt("disarm", "set_voltage", o)

\* a parameter write raised or clear-and-arm returned False, and the point
\* is left by `continue`: no result, on to the next delay
AbandonPoint ==
    /\ pc' = "d_loop"
    /\ obs' = [obs EXCEPT !.dev_touched = TRUE, !.abandoned = @ + 1,
                          !.setup_failed = TRUE, !.disarm_last = NoAttempt]

\* SetVoltage whose failure is logged and passed over: the point goes on
SetVoltage_FailureIgnored ==
    /\ pc = "set_voltage"
    /\ \E o \in Outcomes :
        IF o = "ok"
        THEN /\ dev' = [dev EXCEPT !.voltage = CurV]
             /\ pc' = "set_width"
             /\ obs' = [obs EXCEPT !.dev_touched = TRUE,
                                   !.disarm_last = NoAttempt]
        ELSE /\ dev' = DevRaised(dev, o)
             /\ pc' = "set_width"
             /\ obs' = [obs EXCEPT !.dev_touched = TRUE, !.setup_failed = TRUE]
    /\ UNCHANGED <<config, target_serial, stop_requested, is_running, results,
                   reset_count, warned_no_trigger_offset, loc, events, logs,
                   x_in, x_resp, gui>>

\* SetVoltage whose except clauses miss the device reset: Reset_Exception
\* leaves start_sweep
SetVoltage_ResetPropagates ==
    /\ pc = "set_voltage"
    /\ \E o \in Outcomes :
        IF o = "ok"
        THEN /\ dev' = [dev EXCEPT !.voltage = CurV]
             /\ pc' = "set_width"
             /\ obs' = [obs EXCEPT !.dev_touched = TRUE,
                                   !.disarm_last = NoAttempt]
        ELSE IF o = "reset"
        THEN /\ dev' = DevRaised(dev, o)
             /\ pc' = "raised"
             /\ obs' = [obs EXCEPT !.dev_touched = TRUE]
        ELSE /\ dev' = DevRaised(dev, o)
             /\ AbandonPoint
    /\ UNCHANGED <<config, target_serial, stop_requested, is_running, results,
                   reset_count, warned_no_trigger_offset, loc, events, logs,
                   x_in, x_resp, gui>>

\* 2) self.cs.voltage = v
SetVoltage ==
    /\ pc = "set_voltage"
    /\ \E o \in Outcomes :
        IF o = "ok"
        THEN /\ dev' = [dev EXCEPT !.voltage = CurV]
             /\ pc' = "set_width"
             /\ obs' = [obs EXCEPT !.dev_touched = TRUE,
                                   !.disarm_last = NoAttempt]
        ELSE /\ dev' = DevRaised(dev, o)
             /\ AbandonPoint
    /\ UNCHANGED <<config, target_serial, stop_requested, is_running, results,
                   reset_count, warned_no_trigger_offset, loc, events, logs,
                   x_in, x_resp, gui>>

\* SetWidth that writes the burst registers again at each grid point
SetWidth_RewritesBurst ==
    /\ pc = "set_width"
    /\ \E o \in Outcomes :
        IF o = "ok"
        THEN /\ dev' = [dev EXCEPT !.width = CurPW]
             /\ obs' = [obs EXCEPT !.dev_touched = TRUE, !.burst_writes = @ + 1]
             /\ IF CurDelay > 0 /\ dev.has_offset
                THEN /\ pc' = "set_offset"
                     /\ UNCHANGED <<warned_no_trigger_offset, logs>>
                ELSE /\ pc' = "arm"
                     /\ IF CurDelay > 0 /\ ~warned_no_trigger_offset
                        THEN /\ warned_no_trigger_offset' = TRUE
                             /\ logs' = LogEmit(logs, "no_trigger_offset")
                        ELSE UNCHANGED <<warned_no_trigger_offset, logs>>
        ELSE /\ dev' = DevRaised(dev, o)
             /\ AbandonPoint
             /\ UNCHANGED <<warned_no_trigger_offset, logs>>
    /\ UNCHANGED <<config, target_serial, stop_requested, is_running, results,
                   reset_count, loc, events, x_in, x_resp, gui>>

\* SetWidth that warns without looking at the flag
SetWidth_WarnsEveryPoint ==
    /\ pc = "set_width"
    /\ \E o \in Outcomes :
        IF o = "ok"
        THEN /\ dev' = [dev EXCEPT !.width = CurPW]
             /\ obs' = [obs EXCEPT !.dev_touched = TRUE]
             /\ IF CurDelay > 0 /\ dev.has_offset
                THEN /\ pc' = "set_offset"
                     /\ UNCHANGED <<warned_no_trigger_offset, logs>>
                ELSE /\ pc' = "arm"
                     /\ IF CurDelay > 0
                        THEN /\ warned_no_trigger_offset' = TRUE
                             /\ logs' = LogEmit(logs, "no_trigger_offset")
                        ELSE UNCHANGED <<warned_no_trigger_offset, logs>>
        ELSE /\ dev' = DevRaised(dev, o)
             /\ AbandonPoint
             /\ UNCHANGED <<warned_no_trigger_offset, logs>>
    /\ UNCHANGED <<config, target_serial, stop_requested, is_running, results,
                   reset_count, loc, events, x_in, x_resp, gui>>

\* self.cs.pulse.width = pw, then the branch on delay_us > 0 and on the
\* device having a trigger offset (the one-time warning when it has none)
SetWidth ==
    /\ pc = "set_width"
    /\ \E o \in Outcomes :
        IF o = "ok"
        THEN /\ dev' = [dev EXCEPT !.width = CurPW]
             /\ obs' = [obs EXCEPT !.dev_touched = TRUE]
             /\ IF CurDelay > 0 /\ dev.has_offset
                THEN /\ pc' = "set_offset"
                     /\ UNCHANGED <<warned_no_trigger_offset, logs>>
                ELSE /\ pc' = "arm"
                     /\ IF CurDelay > 0 /\ ~warned_no_trigger_offset
                        THEN /\ warned_no_trigger_offset' = TRUE
                             /\ logs' = LogEmit(logs, "no_trigger_offset")
                        ELSE UNCHANGED <<warned_no_trigger_offset, logs>>
        ELSE /\ dev' = DevRaised(dev, o)
             /\ AbandonPoint
             /\ UNCHANGED <<warned_no_trigger_offset, logs>>
    /\ UNCHANGED <<config, target_serial, stop_requested, is_running, results,
                   reset_count, loc, events, x_in, x_resp, gui>>

\* self.cs.trigger.offset = delay_us
SetOffset ==
    /\ pc = "set_offset"
    /\ \E o \in Outcomes :
        IF o = "ok"
        THEN /\ dev' = [dev EXCEPT !.offset = CurDelay]
             /\ pc' = "arm"
             /\ obs' = [obs EXCEPT !.dev_touched = TRUE]
        ELSE /\ dev' = DevRaised(dev, o)
             /\ AbandonPoint
    /\ UNCHANGED <<config, target_serial, stop_requested, is_running, results,
                   reset_count, warned_no_trigger_offset, loc, events, logs,
                   x_in, x_resp, gui>>

\* ------------------------------------------------------------------------
\* _try_clear_and_arm: one pass of its retry loop (one attempt)
\* ------------------------------------------------------------------------
\* how the attempt ends, from the outcomes of the fault clear (oc) and of
\* the arm (oa, reached only when the clear succeeded)
ArmOutcome(oc, oa) ==
    IF oc = "ok" THEN oa ELSE oc

\* TryClearAndArmStep that treats a device reset as any other failure
TryClearAndArmStep_ResetRetried(o, attempt) ==
    IF o = "ok" THEN "True"
    ELSE IF attempt + 1 < ARM_ATTEMPTS THEN "retry"
    ELSE "False"

\* what the loop does after an attempt that ended with o, `attempt` being
\* the loop variable: return True, return False, or go round again
TryClearAndArmStep(o, attempt) ==
    IF o = "ok" THEN "True"
    ELSE IF o = "reset" THEN "False"
    ELSE IF attempt + 1 < ARM_ATTEMPTS THEN "retry"
    ELSE "False"

\* the device after the attempt
DevAfterArm(d, o) ==
    IF o = "ok" THEN [d EXCEPT !.armed = TRUE] ELSE DevRaised(d, o)

\* PointArm whose failure is logged and passed over: the trials are run
PointArm_FailureIgnored ==
    /\ pc = "arm"
    /\ \E oc \in Outcomes, oa \in Outcomes :
        LET o == ArmOutcome(oc, oa)
            r == TryClearAndArmStep(o, loc.attempt)
        IN  /\ dev' = DevAfterArm(dev, o)
            /\ CASE r = "True" ->
                      /\ pc' = "trial_check"
                      /\ loc' = [loc EXCEPT !.glitch = 0, !.error = 0, !.normal = 0,
                                            !.reset = 0, !.last_ct = << >>,
                                            !.pulse_idx = 0, !.attempt = 0]
                      /\ obs' = [obs EXCEPT !.dev_touched = TRUE, !.arm_ok = TRUE,
                                            !.arm_last = o]
                 [] r = "False" ->
                      /\ pc' = "trial_check"
                      /\ loc' = [loc EXCEPT !.glitch = 0, !.error = 0, !.normal = 0,
                                            !.reset = 0, !.last_ct = << >>,
                                            !.pulse_idx = 0, !.attempt = 0]
                      /\ obs' = [obs EXCEPT !.dev_touched = TRUE,
                                            !.arm_last = o]
                 [] OTHER ->
                      /\ pc' = "arm"
                      /\ loc' = [loc EXCEPT !.attempt = @ + 1]
                      /\ obs' = [obs EXCEPT !.dev_touched = TRUE,
                                            !.arm_last = o]
    /\ UNCHANGED <<config, target_serial, stop_requested, is_running, results,
                   reset_count, warned_no_trigger_offset, events, logs,
                   x_in, x_resp, gui>>

\* 3) clear faults and arm; on failure the point is skipped
PointArm ==
    /\ pc = "arm"
    /\ \E oc \in Outcomes, oa \in Outcomes :
        LET o == ArmOutcome(oc, oa)
            r == TryClearAndArmStep(o, loc.attempt)
        IN  /\ dev' = DevAfterArm(dev, o)
            /\ CASE r = "True" ->
                      /\ pc' = "trial_check"
                      /\ loc' = [loc EXCEPT !.glitch = 0, !.error = 0, !.normal = 0,
                                            !.reset = 0, !.last_ct = << >>,
                                            !.pulse_idx = 0, !.attempt = 0]
                      /\ obs' = [obs EXCEPT !.dev_touched = TRUE, !.arm_ok = TRUE,
                                            !.arm_last = o]
                 [] r = "False" ->
                      /\ pc' = "d_loop"
                      /\ obs' = [obs EXCEPT !.dev_touched = TRUE,
                                            !.abandoned = @ + 1,
                                            !.setup_failed = TRUE,
                                            !.arm_last = o]
                      /\ loc' = [loc EXCEPT !.attempt = 0]
                 [] OTHER ->
                      /\ pc' = "arm"
                      /\ loc' = [loc EXCEPT !.attempt = @ + 1]
                      /\ obs' = [obs EXCEPT !.dev_touched = TRUE,
                                            !.arm_last = o]
    /\ UNCHANGED <<config, target_serial, stop_requested, is_running, results,
                   reset_count, warned_no_trigger_offset, events, logs,
                   x_in, x_resp, gui>>

\* ------------------------------------------------------------------------
\* 4) the pulse loop
\* ------------------------------------------------------------------------
\* TrialCheck without the stop check
TrialCheck_NoStopCheck ==
    /\ pc = "trial_check"
    /\ pc' = IF loc.pulse_idx = config.pulses_per_point
             THEN "aggregate" ELSE "exchange"
    /\ UNCHANGED <<config, target_serial, dev, stop_requested, is_running,
                   results, reset_count, warned_no_trigger_offset, loc, events,
                   logs, obs, x_in, x_resp, gui>>

\* TrialCheck that on stop leaves the point without its result
TrialCheck_StopDropsResult ==
    /\ pc = "trial_check"
    /\ pc' = IF stop_requested THEN "d_loop"
             ELSE IF loc.pulse_idx = config.pulses_per_point THEN "aggregate"
             ELSE "exchange"
    /\ UNCHANGED <<config, target_serial, dev, stop_requested, is_running,
                   results, reset_count, warned_no_trigger_offset, loc, events,
                   logs, obs, x_in, x_resp, gui>>

\* for pulse_idx in range(n_pulses), with its stop check
TrialCheck ==
    /\ pc = "trial_check"
    /\ pc' = IF loc.pulse_idx = config.pulses_per_point \/ stop_requested
             THEN "aggregate" ELSE "exchange"
    /\ UNCHANGED <<config, target_serial, dev, stop_requested, is_running,
                   results, reset_count, warned_no_trigger_offset, loc, events,
                   logs, obs, x_in, x_resp, gui>>

\* IsGlitch without the test of the baseline
IsGlitch_NoBaselineTest(baseline_ct, ct) ==
    Truthy(ct) /\ ct # baseline_ct

\* IsGlitch that asks only whether there is a baseline, empty or not
IsGlitch_EmptyBaselineCounts(baseline_ct, ct) ==
    baseline_ct # NoneVal /\ Truthy(ct) /\ ct # baseline_ct

\* baseline_ct and ct and ct != baseline_ct
IsGlitch(baseline_ct, ct) ==
    Truthy(baseline_ct) /\ Truthy(ct) /\ ct # baseline_ct

\* TrialExchange that counts a target reset at the point and not in the run
TrialExchange_ResetPointOnly ==
    /\ pc = "exchange"
    /\ \E x \in LinksFor(config) :
        LET resp == TargetExchange(x)
            ct == GetCT(resp)
        IN  CASE resp.kind = "None" ->
                   /\ loc' = [loc EXCEPT !.error = @ + 1, !.pulse_idx = @ + 1]
                   /\ pc' = "trial_check"
                   /\ UNCHANGED reset_count
              [] resp.kind # "None" /\ IsReset(resp) ->
                   /\ loc' = [loc EXCEPT !.reset = @ + 1]
                   /\ reset_count' = reset_count
                   /\ pc' = "rebaseline"
              [] OTHER ->
                   /\ loc' = [loc EXCEPT
                                !.last_ct = ct,
                                !.glitch = IF IsGlitch(loc.baseline_ct, ct)
                                           THEN @ + 1 ELSE @,
                                !.normal = IF IsGlitch(loc.baseline_ct, ct)
                                           THEN @ ELSE @ + 1,
                                !.pulse_idx = @ + 1]
                   /\ pc' = "trial_check"
                   /\ UNCHANGED reset_count
    /\ obs' = [obs EXCEPT !.link_touched = TRUE,
                          !.trials_done = @ + 1,
                          !.exch_after_stop = IF stop_requested THEN @ + 1 ELSE @]
    /\ UNCHANGED <<config, target_serial, dev, stop_requested, is_running,
                   results, warned_no_trigger_offset, events, logs, x_in, x_resp, gui>>

\* the inter-pulse sleep, one exchange on the link behaviour x, and the
\* classification of its result
TrialExchangeOn(x) ==
    /\ pc = "exchange"
    /\ LET resp == TargetExchange(x)
            ct == GetCT(resp)
        IN  CASE resp.kind = "None" ->
                   /\ loc' = [loc EXCEPT !.error = @ + 1, !.pulse_idx = @ + 1]
                   /\ pc' = "trial_check"
                   /\ UNCHANGED reset_count
              [] resp.kind # "None" /\ IsReset(resp) ->
                   /\ loc' = [loc EXCEPT !.reset = @ + 1]
                   /\ reset_count' = reset_count + 1
                   /\ pc' = "rebaseline"
              [] OTHER ->
                   /\ loc' = [loc EXCEPT
                                !.last_ct = ct,
                                !.glitch = IF IsGlitch(loc.baseline_ct, ct)
                                           THEN @ + 1 ELSE @,
                                !.normal = IF IsGlitch(loc.baseline_ct, ct)
                                           THEN @ ELSE @ + 1,
                                !.pulse_idx = @ + 1]
                   /\ pc' = "trial_check"
                   /\ UNCHANGED reset_count
    /\ obs' = [obs EXCEPT !.link_touched = TRUE,
                          !.trials_done = @ + 1,
                          !.exch_after_stop = IF stop_requested THEN @ + 1 ELSE @]
    /\ UNCHANGED <<config, target_serial, dev, stop_requested, is_running,
                   results, warned_no_trigger_offset, events, logs, x_in, x_resp, gui>>

\* Rebaseline that tests `new_bl is not None`: an empty CT replaces the baseline
Rebaseline_TakesEmptyCT ==
    /\ pc = "rebaseline"
    /\ \E mode_ok \in BOOLEAN, x \in LinksFor(config) :
        LET new_bl == SetupTargetMode(mode_ok, x)
        IN  loc' = [loc EXCEPT !.baseline_ct = IF new_bl # NoneVal THEN new_bl ELSE @,
                               !.attempt = 0]
    /\ obs' = [obs EXCEPT !.rebaselines = @ + 1]
    /\ pc' = "rearm"
    /\ UNCHANGED <<config, target_serial, dev, stop_requested, is_running,
                   results, reset_count, warned_no_trigger_offset, events, logs,
                   x_in, x_resp, gui>>

\* one trial of the pulse loop, on any behaviour of the link
TrialExchange ==
    \E x \in LinksFor(config) : TrialExchangeOn(x)

\* after a target reset: MODE again and a new baseline when one is obtained
Rebaseline ==
    /\ pc = "rebaseline"
    /\ \E mode_ok \in BOOLEAN, x \in LinksFor(config) :
        LET new_bl == SetupTargetMode(mode_ok, x)
        IN  loc' = [loc EXCEPT !.baseline_ct = IF Truthy(new_bl) THEN new_bl ELSE @,
                               !.attempt = 0]
    /\ obs' = [obs EXCEPT !.rebaselines = @ + 1]
    /\ pc' = "rearm"
    /\ UNCHANGED <<config, target_serial, dev, stop_requested, is_running,
                   results, reset_count, warned_no_trigger_offset, events, logs,
                   x_in, x_resp, gui>>

\* ReArm that on failure leaves the point by continue, without its result
ReArm_FailureDropsPoint ==
    /\ pc = "rearm"
    /\ \E oc \in Outcomes, oa \in Outcomes :
        LET o == ArmOutcome(oc, oa)
            r == TryClearAndArmStep(o, loc.attempt)
        IN  /\ dev' = DevAfterArm(dev, o)
            /\ CASE r = "True" ->
                      /\ pc' = "trial_check"
                      /\ loc' = [loc EXCEPT !.pulse_idx = @ + 1, !.attempt = 0]
                      /\ obs' = [obs EXCEPT !.rearms = @ + 1, !.arm_ok = TRUE,
                                            !.arm_last = o]
                 [] r = "False" ->
                      /\ pc' = "d_loop"
                      /\ loc' = [loc EXCEPT !.attempt = 0]
                      /\ obs' = [obs EXCEPT !.rearm_failed = TRUE, !.abandoned = @ + 1,
                                            !.arm_last = o]
                 [] OTHER ->
                      /\ pc' = "rearm"
                      /\ loc' = [loc EXCEPT !.attempt = @ + 1]
                      /\ obs' = [obs EXCEPT !.arm_last = o]
    /\ UNCHANGED <<config, target_serial, stop_requested, is_running, results,
                   reset_count, warned_no_trigger_offset, events, logs,
                   x_in, x_resp, gui>>

\* after a target reset: clear and arm again, or break out of the pulse loop
ReArm ==
    /\ pc = "rearm"
    /\ \E oc \in Outcomes, oa \in Outcomes :
        LET o == ArmOutcome(oc, oa)
            r == TryClearAndArmStep(o, loc.attempt)
        IN  /\ dev' = DevAfterArm(dev, o)
            /\ CASE r = "True" ->
                      /\ pc' = "trial_check"
                      /\ loc' = [loc EXCEPT !.pulse_idx = @ + 1, !.attempt = 0]
                      /\ obs' = [obs EXCEPT !.rearms = @ + 1, !.arm_ok = TRUE,
                                            !.arm_last = o]
                 [] r = "False" ->
                      /\ pc' = "aggregate"
                      /\ loc' = [loc EXCEPT !.attempt = 0]
                      /\ obs' = [obs EXCEPT !.rearm_failed = TRUE, !.arm_ok = FALSE,
                                            !.arm_last = o]
                 [] OTHER ->
                      /\ pc' = "rearm"
                      /\ loc' = [loc EXCEPT !.attempt = @ + 1]
                      /\ obs' = [obs EXCEPT !.arm_last = o]
    /\ UNCHANGED <<config, target_serial, stop_requested, is_running, results,
                   reset_count, warned_no_trigger_offset, events, logs,
                   x_in, x_resp, gui>>

\* ------------------------------------------------------------------------
\* The per-point result and the run summary
\* ------------------------------------------------------------------------
\* FormatRate that cuts the value off after the first decimal
FormatRate_Truncated(glitch, n_total) ==
    IF n_total > 0
    THEN [fmt |-> "{:.1f}%", tenths |-> (glitch * 1000) \div n_total]
    ELSE [fmt |-> "0%", tenths |-> 0]

\* f"{glitch / n_total * 100:.1f}%" if n_total > 0 else "0%": the text is
\* kept as its format and the value in tenths of a percent (ties to even)
FormatRate(glitch, n_total) ==
    IF n_total > 0
    THEN LET q == (glitch * 1000) \div n_total
             r == (glitch * 1000) % n_total
         IN  [fmt |-> "{:.1f}%",
              tenths |-> IF 2 * r > n_total \/ (2 * r = n_total /\ q % 2 = 1)
                         THEN q + 1 ELSE q]
    ELSE [fmt |-> "0%", tenths |-> 0]

\* PointResult whose total leaves the resets out
PointResult_TotalWithoutResets ==
    LET n_total == loc.glitch + loc.error + loc.normal
    IN  [voltage |-> CurV,
         pulse_width |-> CurPW,
         delay_us |-> CurDelay,
         glitches |-> loc.glitch,
         errors |-> loc.error,
         normal |-> loc.normal,
         resets |-> loc.reset,
         total |-> n_total,
         baseline_ct |-> IF Truthy(loc.baseline_ct) THEN loc.baseline_ct ELSE << >>,
         last_ct |-> loc.last_ct,
         rate |-> FormatRate(loc.glitch, n_total)]

\* the result dict of the current point
PointResult ==
    LET n_total == loc.glitch + loc.error + loc.normal + loc.reset
    IN  [voltage |-> CurV,
         pulse_width |-> CurPW,
         delay_us |-> CurDelay,
         glitches |-> loc.glitch,
         errors |-> loc.error,
         normal |-> loc.normal,
         resets |-> loc.reset,
         total |-> n_total,
         baseline_ct |-> IF Truthy(loc.baseline_ct) THEN loc.baseline_ct ELSE << >>,
         last_ct |-> loc.last_ct,
         rate |-> FormatRate(loc.glitch, n_total)]

\* PointSignals with the progress line ahead of the result
PointSignals_ProgressFirst ==
    <<EvProgress(loc.step), EvResult(loc.step, Len(results) + 1, obs.trials_done)>>

\* the signals of one finished point: the result, then its progress line
PointSignals ==
    <<EvResult(loc.step, Len(results) + 1, obs.trials_done), EvProgress(loc.step)>>

\* the end of a point's body: the result is appended and emitted
Aggregate ==
    /\ pc = "aggregate"
    /\ results' = Append(results, PointResult)
    /\ events' = events \o PointSignals
    /\ pc' = "d_loop"
    /\ UNCHANGED <<config, target_serial, dev, stop_requested, is_running,
                   reset_count, warned_no_trigger_offset, loc, logs, obs,
                   x_in, x_resp, gui>>

RECURSIVE SumOf(_, _)
\* sum(r[f] for r in rs)
SumOf(rs, f) ==
    IF rs = << >> THEN 0 ELSE Head(rs)[f] + SumOf(Tail(rs), f)

\* len([r for r in rs if r["glitches"] > 0])
Sensitive(rs) ==
    Len(SelectSeq(rs, LAMBDA r : r.glitches > 0))

\* the cleanup disarm after the loops
FinalDisarm ==
    \E o \in Outcomes : SafeDisarmAttempt("final_disarm", "finish", o)

\* "STOPPED" if self._stop_requested else "COMPLETE"
Prefix ==
    IF stop_requested THEN "STOPPED" ELSE "COMPLETE"

\* Finish that emits the summary and leaves is_running set
Finish_StillRunning ==
    /\ pc = "finish"
    /\ is_running' = is_running
    /\ events' = Append(events,
                    EvFinished(Prefix,
                               Summary(loc.step, Total(config),
                                       SumOf(results, "glitches"),
                                       Sensitive(results),
                                       SumOf(results, "resets"))))
    /\ pc' = "done"
    /\ obs' = [obs EXCEPT !.disarm_last = NoAttempt]
    /\ UNCHANGED <<config, target_serial, dev, stop_requested, results,
                   reset_count, warned_no_trigger_offset, loc, logs,
                   x_in, x_resp, gui>>

\* is_running = False and the terminal sweep_finished signal
Finish ==
    /\ pc = "finish"
    /\ is_running' = FALSE
    /\ events' = Append(events,
                    EvFinished(Prefix,
                               Summary(loc.step, Total(config),
                                       SumOf(results, "glitches"),
                                       Sensitive(results),
                                       SumOf(results, "resets"))))
    /\ pc' = "done"
    /\ obs' = [obs EXCEPT !.disarm_last = NoAttempt]
    /\ UNCHANGED <<config, target_serial, dev, stop_requested, results,
                   reset_count, warned_no_trigger_offset, loc, logs,
                   x_in, x_resp, gui>>

\* one step of the worker thread running start_sweep
Worker ==
    \/ StartSweep
    \/ Precheck
    \/ FixedParams
    \/ InitialClear
    \/ Baseline
    \/ VLoop
    \/ PwLoop
    \/ DLoop
    \/ PointDisarm
    \/ SetVoltage
    \/ SetWidth
    \/ SetOffset
    \/ PointArm
    \/ TrialCheck
    \/ TrialExchange
    \/ Rebaseline
    \/ ReArm
    \/ Aggregate
    \/ FinalDisarm
    \/ Finish

Next ==
    \/ Worker
    \/ StopSweep

Spec == Init /\ [][Next]_vars

\* the worker thread keeps running until start_sweep returns
FairSpec == Spec /\ WF_vars(Worker)

\* ------------------------------------------------------------------------
\* Grid construction on its own: start_sweep on any of a wide set of
\* configurations, never stopped, with a device and a target that do not
\* fail
\* ------------------------------------------------------------------------
\* the ranges of one axis: a single value, the full span in whole steps, a
\* span whose end no whole step reaches, and an end below the second value
GridAxisRanges(start, step) ==
    { [end |-> start, step |-> step],
      [end |-> start + step * (MaxGridLevels - 1), step |-> step],
      [end |-> start + step * (MaxGridLevels - 1), step |-> 3 * step],
      [end |-> start + step - 1, step |-> step] }

\* the configurations: every choice of active axes and of the three ranges
GridConfigs ==
    {c \in {[MakeConfig(axes, 1) EXCEPT
                !.v_end = rv.end, !.v_step = rv.step,
                !.pw_end = rp.end, !.pw_step = rp.step,
                !.delay_end = rd.end, !.delay_step = rd.step] :
              axes \in SUBSET AllAxes,
              rv \in GridAxisRanges(SWEEP_V_START, SWEEP_V_STEP),
              rp \in GridAxisRanges(SWEEP_PW_START, SWEEP_PW_STEP),
              rd \in GridAxisRanges(SWEEP_DELAY_START, SWEEP_DELAY_STEP)} :
        Total(c) <= MaxGridPoints}

\* a start request on an open link with a disarmed device
InitGrid ==
    /\ pc = "idle"
    /\ config \in GridConfigs
    /\ target_serial = "open"
    /\ dev \in {d \in Devices(config) : ~d.armed}
    /\ stop_requested = FALSE
    /\ is_running = FALSE
    /\ results = << >>
    /\ reset_count = 0
    /\ warned_no_trigger_offset = FALSE
    /\ loc = LocInit
    /\ events = << >>
    /\ logs = [k \in LogKinds |-> 0]
    /\ obs = ObsInit
    /\ x_in = Link(TRUE, << >>, "timeout")
    /\ x_resp = RespPending
    /\ gui = GuiInit

\* the step met no failure: no device operation raised (no retry, no point
\* abandoned), the baseline was obtained, and the trial's exchange gave a
\* mapping (no error, no target reset)
QuietStep ==
    /\ obs'.abandoned = 0
    /\ loc'.attempt = 0
    /\ loc'.error = 0
    /\ loc'.reset = 0
    /\ logs'["no_baseline"] = 0

\* the steps of start_sweep that a run without failures takes
QuietWorker ==
    \/ StartSweep
    \/ Precheck
    \/ FixedParams
    \/ InitialClear
    \/ Baseline
    \/ VLoop
    \/ PwLoop
    \/ DLoop
    \/ PointDisarm
    \/ SetVoltage
    \/ SetWidth
    \/ SetOffset
    \/ PointArm
    \/ TrialCheck
    \/ TrialExchange
    \/ Aggregate
    \/ FinalDisarm
    \/ Finish

NextGrid == QuietWorker /\ QuietStep

GridSpec == InitGrid /\ [][NextGrid]_vars

\* ------------------------------------------------------------------------
\* Grid construction from ranges that run backwards: as GridSpec, on
\* configurations in which the end of some axis is below its start
\* ------------------------------------------------------------------------
\* the ranges of one axis: a single value, two values, and an end below start
ReversedAxisRanges(start, step) ==
    { [start |-> start, end |-> start],
      [start |-> start, end |-> start + step],
      [start |-> start, end |-> start - step] }

\* the configurations with at least one axis, active or not, whose end is
\* below its start; the delay axis also starts above zero
ReversedConfigs ==
    {c \in {[MakeConfig(axes, 1) EXCEPT
                !.v_end = rv.end,
                !.pw_end = rp.end,
                !.delay_start = rd.start, !.delay_end = rd.end] :
              axes \in SUBSET AllAxes,
              rv \in ReversedAxisRanges(SWEEP_V_START, SWEEP_V_STEP),
              rp \in ReversedAxisRanges(SWEEP_PW_START, SWEEP_PW_STEP),
              rd \in ReversedAxisRanges(SWEEP_DELAY_START, SWEEP_DELAY_STEP)
                        \cup ReversedAxisRanges(SWEEP_DELAY_STEP, SWEEP_DELAY_STEP)} :
        \/ c.v_end < c.v_start
        \/ c.pw_end < c.pw_start
        \/ c.delay_end < c.delay_start}

\* a start request on an open link with a disarmed device
InitReversed ==
    /\ pc = "idle"
    /\ config \in ReversedConfigs
    /\ target_serial = "open"
    /\ dev \in {d \in Devices(config) : ~d.armed}
    /\ stop_requested = FALSE
    /\ is_running = FALSE
    /\ results = << >>
    /\ reset_count = 0
    /\ warned_no_trigger_offset = FALSE
    /\ loc = LocInit
    /\ events = << >>
    /\ logs = [k \in LogKinds |-> 0]
    /\ obs = ObsInit
    /\ x_in = Link(TRUE, << >>, "timeout")
    /\ x_resp = RespPending
    /\ gui = GuiInit

ReversedGridSpec == InitReversed /\ [][NextGrid]_vars

\* ------------------------------------------------------------------------
\* The main window and the sweep thread together: the handlers of
\* MainWindow run one at a time on the GUI thread, start_sweep runs on the
\* sweep thread when the queued _start_requested signal is delivered, and
\* sweep_finished comes back to the GUI thread as a queued signal. The
\* device and the target do not fail, and the API worker is never busy.
\* ------------------------------------------------------------------------
\* how many sweeps the user may ask for
MaxRuns == 2

\* the sweep_finished signals emitted so far
NumFinished == Cardinality({i \in 1..Len(events) : events[i].sig = "finished"})

\* a command goes to the pulse device or to the target link from outside
\* start_sweep: noted when a sweep is marked as running
Commanded(g) == [g EXCEPT !.commanded = @ \/ g.sweep_running]

\* the serial ports of the port boxes; in the sweep's setting the pulse
\* device is on the first and the target board on the second
Ports == {"COM1", "COM2"}
API_PORT == "COM1"
TERMINAL_PORT == "COM2"

\* the body of _on_api_connection_changed(connected, port)
ApiConnectionChanged(g, connected, port) ==
    [g EXCEPT !.api_connected = connected,
              !.api_port = IF connected THEN port ELSE NoPort,
              !.fault_timer = connected,
              !.arm_state_timer = connected]

\* _on_api_connection_changed, after a connect or disconnect request
OnApiConnectionChanged(connected) ==
    /\ connected # gui.api_connected
    /\ gui' = ApiConnectionChanged(gui, connected, API_PORT)
    /\ UNCHANGED <<engine_vars, x_in, x_resp>>

\* _connect_terminal with `port` selected: refused when the API is known to
\* be connected on that port; otherwise the port is opened anew, which may
\* fail
ConnectTerminalOn(port) ==
    /\ IF gui.api_connected /\ gui.api_port = port
       THEN gui' = gui
       ELSE \E ok \in BOOLEAN :
               gui' = [gui EXCEPT !.is_connected = ok,
                                  !.terminal_connected = IF ok THEN TRUE ELSE @,
                                  !.terminal_port = IF ok THEN port ELSE @,
                                  !.serial_timer = ok]
    /\ UNCHANGED <<engine_vars, x_in, x_resp>>

\* _connect_terminal with the target's port selected
ConnectTerminal ==
    ConnectTerminalOn(TERMINAL_PORT)

\* _disconnect_terminal
DisconnectTerminal ==
    /\ gui.terminal_connected \/ gui.is_connected \/ gui.serial_timer
           \/ gui.repeat_send_timer
    /\ gui' = [gui EXCEPT !.serial_timer = FALSE,
                          !.repeat_send_timer = FALSE,
                          !.is_connected = FALSE,
                          !.terminal_connected = FALSE,
                          !.terminal_port = NoPort]
    /\ UNCHANGED <<engine_vars, x_in, x_resp>>

\* _start_repeat_send with a payload typed in
StartRepeatSend ==
    /\ gui.is_connected
    /\ ~gui.repeat_send_timer
    /\ gui' = [gui EXCEPT !.repeat_send_timer = TRUE]
    /\ UNCHANGED <<engine_vars, x_in, x_resp>>

\* _stop_repeat_send from its button
StopRepeatSend ==
    /\ gui.repeat_send_timer
    /\ gui' = [gui EXCEPT !.repeat_send_timer = FALSE]
    /\ UNCHANGED <<engine_vars, x_in, x_resp>>

\* _arm_device: request_arm goes to the API worker
ArmDevice ==
    /\ gui.api_connected
    /\ gui' = Commanded(gui)
    /\ UNCHANGED <<engine_vars, x_in, x_resp>>

\* _send_terminal_command with a command typed in
SendTerminalCommand ==
    /\ gui.is_connected
    /\ gui' = Commanded(gui)
    /\ UNCHANGED <<engine_vars, x_in, x_resp>>

\* fault_timer fires: _poll_faults
PollFaults ==
    /\ gui.fault_timer
    /\ gui.api_connected
    /\ gui' = Commanded(gui)
    /\ UNCHANGED <<engine_vars, x_in, x_resp>>

\* arm_state_timer fires: _poll_arm_state
PollArmState ==
    /\ gui.arm_state_timer
    /\ gui.api_connected
    /\ gui' = Commanded(gui)
    /\ UNCHANGED <<engine_vars, x_in, x_resp>>

\* serial_timer fires: terminal_worker.read_data reads the target link
SerialRead ==
    /\ gui.serial_timer
    /\ gui.is_connected
    /\ gui' = Commanded(gui)
    /\ UNCHANGED <<engine_vars, x_in, x_resp>>

\* repeat_send_timer fires: _send_repeat_payload
SendRepeatPayload ==
    /\ gui.repeat_send_timer
    /\ gui' = IF ~gui.is_connected
              THEN [gui EXCEPT !.repeat_send_timer = FALSE]
              ELSE Commanded(gui)
    /\ UNCHANGED <<engine_vars, x_in, x_resp>>

\* _start_sweep without the test of sweep_running
GuiStartSweep_NoRunningCheck ==
    /\ gui.api_connected
    /\ gui.terminal_connected /\ gui.is_connected
    /\ gui.start_emitted < MaxRuns
    /\ gui' = [gui EXCEPT !.fault_timer = FALSE,
                          !.arm_state_timer = FALSE,
                          !.serial_timer = FALSE,
                          !.repeat_send_timer = FALSE,
                          !.sweep_running = TRUE,
                          !.start_emitted = @ + 1,
                          !.commanded = FALSE,
                          !.stop_clicked = FALSE]
    /\ UNCHANGED <<engine_vars, x_in, x_resp>>

\* _start_sweep: the checks, the timers stopped, sweep_running set, and
\* _start_requested emitted to the sweep thread
GuiStartSweep ==
    /\ gui.api_connected
    /\ gui.terminal_connected /\ gui.is_connected
    /\ ~gui.sweep_running
    /\ gui.start_emitted < MaxRuns
    /\ gui' = [gui EXCEPT !.fault_timer = FALSE,
                          !.arm_state_timer = FALSE,
                          !.serial_timer = FALSE,
                          !.repeat_send_timer = FALSE,
                          !.sweep_running = TRUE,
                          !.start_emitted = @ + 1,
                          !.commanded = FALSE,
                          !.stop_clicked = FALSE]
    /\ UNCHANGED <<engine_vars, x_in, x_resp>>

\* _stop_sweep from its button, which is enabled from the start request to
\* the terminal signal: stop_sweep() is called on the GUI thread
GuiStopSweep ==
    /\ gui.sweep_running
    /\ stop_requested' = TRUE
    /\ obs' = IF stop_requested THEN obs
              ELSE [obs EXCEPT !.stop_at = Phase(pc), !.stop_nres = Len(results),
                               !.stop_step = loc.step]
    /\ gui' = [gui EXCEPT !.stop_clicked = @ \/ NumFinished < gui.start_emitted]
    /\ UNCHANGED <<pc, config, target_serial, dev, is_running, results,
                   reset_count, warned_no_trigger_offset, loc, events, logs,
                   x_in, x_resp>>

\* _on_sweep_finished, when a sweep_finished signal reaches the GUI thread
OnSweepFinished ==
    /\ gui.finished_seen < NumFinished
    /\ gui' = [gui EXCEPT !.sweep_running = FALSE,
                          !.finished_seen = @ + 1,
                          !.fault_timer = IF gui.api_connected THEN TRUE ELSE @,
                          !.arm_state_timer = IF gui.api_connected THEN TRUE ELSE @,
                          !.serial_timer =
                              IF gui.terminal_connected /\ gui.is_connected
                              THEN TRUE ELSE @]
    /\ UNCHANGED <<engine_vars, x_in, x_resp>>

\* the sweep thread, back in its event loop, is handed the next queued
\* _start_requested: start_sweep is called with the arguments of the request
DeliverStart ==
    /\ pc \in {"waiting", "done"}
    /\ gui.start_delivered < gui.start_emitted
    /\ pc' = "idle"
    /\ loc' = LocInit
    /\ gui' = [gui EXCEPT !.start_delivered = @ + 1]
    /\ UNCHANGED <<config, target_serial, dev, stop_requested, is_running,
                   results, reset_count, warned_no_trigger_offset, events,
                   logs, obs, x_in, x_resp>>

\* one step of start_sweep on the sweep thread
SweepThread == Worker /\ QuietStep

\* the window and the sweep worker as constructed; the sweep panel holds a
\* sweep of a single point with one trial
InitCaller ==
    /\ pc = "waiting"
    /\ config = MakeConfig({}, 1)
    /\ target_serial = "open"
    /\ dev \in {d \in Devices(config) : ~d.armed}
    /\ stop_requested = FALSE
    /\ is_running = FALSE
    /\ results = << >>
    /\ reset_count = 0
    /\ warned_no_trigger_offset = FALSE
    /\ loc = LocInit
    /\ events = << >>
    /\ logs = [k \in LogKinds |-> 0]
    /\ obs = ObsInit
    /\ x_in = Link(TRUE, << >>, "timeout")
    /\ x_resp = RespPending
    /\ gui = GuiInit

NextCaller ==
    \/ \E connected \in BOOLEAN : OnApiConnectionChanged(connected)
    \/ ConnectTerminal
    \/ DisconnectTerminal
    \/ StartRepeatSend
    \/ StopRepeatSend
    \/ ArmDevice
    \/ SendTerminalCommand
    \/ PollFaults
    \/ PollArmState
    \/ SerialRead
    \/ SendRepeatPayload
    \/ GuiStartSweep
    \/ GuiStopSweep
    \/ OnSweepFinished
    \/ DeliverStart
    \/ SweepThread

CallerSpec == InitCaller /\ [][NextCaller]_vars

\* ------------------------------------------------------------------------
\* _target_exchange on its own: the link delivers any lines, then the
\* exchange runs over them
\* ------------------------------------------------------------------------
\* readline() returns one more line inside the window
XRead ==
    /\ x_resp = RespPending
    /\ Len(x_in.reads) < MaxReads
    /\ \E l \in RawLines : x_in' = [x_in EXCEPT !.reads = Append(@, l)]
    /\ UNCHANGED <<x_resp, engine_vars, gui>>

\* the exchange over the lines delivered, the window ending by timeout or by
\* readline raising
XExchange ==
    /\ x_resp = RespPending
    /\ \E tail \in {"timeout", "error"} :
        /\ x_in' = [x_in EXCEPT !.tail = tail]
        /\ x_resp' = TargetExchange(x_in')
    /\ UNCHANGED <<engine_vars, gui>>

\* the exchange when reset_input_buffer() or the write of START raises
XOpenFails ==
    /\ x_resp = RespPending
    /\ x_in.reads = << >>
    /\ x_in' = [x_in EXCEPT !.open_ok = FALSE, !.tail = "error"]
    /\ x_resp' = TargetExchange(x_in')
    /\ UNCHANGED <<engine_vars, gui>>

\* no sweep is started: the worker is as constructed
InitX ==
    /\ pc = "idle"
    /\ config = MakeConfig({}, 1)
    /\ target_serial = "None"
    /\ dev = [armed |-> FALSE, has_offset |-> TRUE, voltage |-> 0,
              width |-> 0, offset |-> 0]
    /\ stop_requested = FALSE
    /\ is_running = FALSE
    /\ results = << >>
    /\ reset_count = 0
    /\ warned_no_trigger_offset = FALSE
    /\ loc = LocInit
    /\ events = << >>
    /\ logs = [k \in LogKinds |-> 0]
    /\ obs = ObsInit
    /\ x_in = Link(TRUE, << >>, "timeout")
    /\ x_resp = RespPending
    /\ gui = GuiInit

NextX ==
    \/ XRead
    \/ XExchange
    \/ XOpenFails

ExchangeSpec == InitX /\ [][NextX]_vars

\* ------------------------------------------------------------------------
\* Properties of _target_exchange (checked under ExchangeSpec)
\* ------------------------------------------------------------------------
\* the exchange has returned
XDone == x_resp # RespPending

\* the text the loop sees for a read: decoded and stripped
TextOf(raw) == Strip(Decode(raw))

\* the places of the stream whose line contains pat
LinesWith(reads, pat) ==
    {i \in 1..Len(reads) : Contains(TextOf(reads[i]), pat)}

\* the least element of a non-empty set of numbers
Least(S) == CHOOSE i \in S : \A j \in S : i <= j

\* the greatest element of a non-empty set of numbers
Greatest(S) == CHOOSE i \in S : \A j \in S : i >= j

KeyOf(t) ==
    LET j == CHOOSE j \in 1..Len(t) : t[j] = COLON /\ \A m \in 1..(j - 1) : t[m] # COLON
    IN  Strip(SubSeq(t, 1, j - 1))

\* the VALUE of a KEY:VALUE line: the text after its first colon, trimmed
ValOf(t) ==
    LET j == CHOOSE j \in 1..Len(t) : t[j] = COLON /\ \A m \in 1..(j - 1) : t[m] # COLON
    IN  Strip(SubSeq(t, j + 1, Len(t)))

\* a well-formed stream: no reset marker, no ERROR:, a DATA_START line and
\* after it the first DATA_END line; blank lines, empty reads and other
\* lines may stand anywhere
WellFormed(reads) ==
    /\ LinesWith(reads, KW45_RESET_MARKER) = {}
    /\ LinesWith(reads, ERROR_MARK) = {}
    /\ LinesWith(reads, DATA_START) \cap LinesWith(reads, DATA_END) = {}
    /\ LinesWith(reads, DATA_START) # {}
    /\ LinesWith(reads, DATA_END) # {}
    /\ Least(LinesWith(reads, DATA_START)) < Least(LinesWith(reads, DATA_END))

\* the mapping of a well-formed stream: of the KEY:VALUE lines between the
\* first DATA_START and the first DATA_END, each key with its last value
MappingOf(reads) ==
    LET s == Least(LinesWith(reads, DATA_START))
        e == Least(LinesWith(reads, DATA_END))
        kv == {i \in (s + 1)..(e - 1) :
                  /\ Contains(TextOf(reads[i]), <<COLON>>)
                  /\ ~Contains(TextOf(reads[i]), DATA_START)}
        keys == {KeyOf(TextOf(reads[i])) : i \in kv}
    IN  [k \in keys |->
            ValOf(TextOf(reads[Greatest({i \in kv : KeyOf(TextOf(reads[i])) = k})]))]

\* C10: for every well-formed stream the exchange returns exactly the
\* mapping of its KEY:VALUE lines between DATA_START and DATA_END (split on
\* the first colon, trimmed, last value of a repeated key), whatever blank
\* lines and empty reads are interleaved; lines before DATA_START are not
\* recorded
C10_WellFormedMapping ==
    (XDone /\ x_in.open_ok /\ WellFormed(x_in.reads))
        => /\ x_resp.kind = "Data"
           /\ DOMAIN x_resp.data = DOMAIN MappingOf(x_in.reads)
           /\ \A k \in DOMAIN x_resp.data : x_resp.data[k] = MappingOf(x_in.reads)[k]

\* C10 witness: a KEY:VALUE line before DATA_START is left out, and the
\* padded line between the markers is recorded trimmed
C10_Witness ==
    /\ XDone
    /\ x_in.reads = <<LineCtAA, LineStart, LinePadded, LineEnd>>
    /\ WellFormed(x_in.reads)
    /\ DOMAIN x_resp.data = {<<"PT">>}
    /\ x_resp.data[<<"PT">>] = <<"A", ":", "B">>

\* C11 as stated: when a line containing ERROR: is read and no line read up
\* to and including it contains DATA_END or the reset marker, the exchange
\* returns None, never a mapping, whether or not collecting had started
C11_ErrorBeforeEnd ==
    LET errs == LinesWith(x_in.reads, ERROR_MARK)
        others == LinesWith(x_in.reads, DATA_END)
                      \cup LinesWith(x_in.reads, KW45_RESET_MARKER)
    IN  (XDone /\ x_in.open_ok /\ errs # {}
            /\ \A j \in others : j > Least(errs))
        => x_resp = RespNone

\* no line of the stream ends the exchange: none contains the reset marker,
\* DATA_END or ERROR:, so the loop runs until the window ends
RunsToWindowEnd(reads) ==
    /\ LinesWith(reads, KW45_RESET_MARKER) = {}
    /\ LinesWith(reads, DATA_END) = {}
    /\ LinesWith(reads, ERROR_MARK) = {}

\* the places of the KEY:VALUE lines recorded by the end of the stream:
\* those after the first DATA_START line that are no DATA_START line
RecordedLines(reads) ==
    IF LinesWith(reads, DATA_START) = {} THEN {}
    ELSE {i \in (Least(LinesWith(reads, DATA_START)) + 1)..Len(reads) :
             /\ Contains(TextOf(reads[i]), <<COLON>>)
             /\ ~Contains(TextOf(reads[i]), DATA_START)}

LastEvent == events[Len(events)]

\* the run passed the precondition check and start_sweep has returned
RunEnded == pc = "done" /\ target_serial = "open"

\* the places of the result signals among the signals
ResultEvents == {i \in 1..Len(events) : events[i].sig = "result"}

\* C1 as stated: in every run that passed the precondition check the pulse
\* device is disarmed in the state in which the terminal sweep_finished
\* signal is emitted, on every exit path and for every sequence of failures
C1_DisarmedAtTerminalEvent ==
    RunEnded => (LastEvent.sig = "finished" /\ ~dev.armed)

\* C2 as stated: voltage, pulse width and trigger offset are never written
\* while the pulse device is armed
C2_NoParameterWriteWhileArmed ==
    pc \in {"set_voltage", "set_width", "set_offset"} => ~dev.armed

\* C3 as stated: once stop has been requested the engine starts no new grid
\* point and no new trial exchange
C3_NothingStartsAfterStop ==
    obs.points_after_stop = 0 /\ obs.exch_after_stop = 0

\* C3 amended: once stop has been requested no new grid point begins and
\* every point or trial iteration whose stop check comes after the request
\* is not run, so at most one trial exchange starts after the request: that
\* of the trial whose stop check had already passed when it arrived
C3_AtMostOneExchangeAfterStop ==
    /\ obs.points_after_stop = 0
    /\ obs.exch_after_stop <= 1
    /\ (obs.exch_after_stop = 1 => obs.stop_at = "trials")

\* C3 witness: a run that ended with one trial exchange begun after the stop
\* request
C3_Witness ==
    RunEnded /\ obs.exch_after_stop = 1 /\ LastEvent.tag = "STOPPED"

\* C4 as stated: a stop requested after the k-th PointResult and before the
\* next grid point begins leaves exactly k PointResults, a summary tagged
\* STOPPED and the device disarmed at the end of the run
C4_StopBetweenPoints ==
    (RunEnded /\ obs.stop_at = "between" /\ obs.stop_nres >= 1)
        => /\ Len(results) = obs.stop_nres
           /\ Cardinality(ResultEvents) = obs.stop_nres
           /\ LastEvent.tag = "STOPPED"
           /\ ~dev.armed

\* the part of C4 that does not rest on the final disarm: the number of
\* PointResults and the tag
C4_CountAndTag ==
    (RunEnded /\ obs.stop_at = "between" /\ obs.stop_nres >= 1)
        => /\ Len(results) = obs.stop_nres
           /\ Cardinality(ResultEvents) = obs.stop_nres
           /\ LastEvent.tag = "STOPPED"

\* C5: when stop is requested inside a point's pulse loop, then once that
\* loop is left a PointResult of that point has been emitted, ahead of the
\* terminal signal, and its total is the number of trials of the point that
\* completed, split over its four counters
C5_PartialResultEmitted ==
    (obs.stop_at = "trials" /\ Phase(pc) # "trials")
        => \E i \in ResultEvents :
              LET r == results[events[i].idx]
              IN  /\ events[i].step = obs.stop_step
                  /\ r.total = events[i].trials
                  /\ r.total = r.glitches + r.errors + r.normal + r.resets
                  /\ r.total <= config.pulses_per_point
                  /\ (pc = "done" => LastEvent.sig = "finished" /\ i < Len(events))

\* C5 witness: a run stopped inside the pulse loop after one of two trials,
\* ended with that point's result holding one trial
C5_Witness ==
    /\ RunEnded
    /\ obs.stop_at = "trials"
    /\ config.pulses_per_point = 2
    /\ Len(results) = 1
    /\ results[1].total = 1

\* C6: a run that passed the precondition check ends, whatever the device
\* and the link do, with a terminal summary tagged COMPLETE or STOPPED
C6_RunTerminates ==
    (pc = "fixed") ~> (pc = "done" /\ LastEvent.sig = "finished"
                          /\ LastEvent.tag \in {"COMPLETE", "STOPPED"})

\* C6 witness: a run that ended COMPLETE although a point was abandoned on a
\* device failure and a trial of another point ended in a link error
C6_Witness ==
    /\ RunEnded
    /\ LastEvent.tag = "COMPLETE"
    /\ obs.abandoned >= 1
    /\ \E i \in 1..Len(results) : results[i].errors >= 1

\* C7: with the target link absent or closed the run aborts at once: no
\* operation on the pulse device, nothing on the link, no PointResult and no
\* progress signal, one terminal signal tagged ABORTED, is_running false
C7_AbortWithoutDeviceInteraction ==
    (target_serial # "open" /\ pc # "idle")
        => /\ ~obs.dev_touched
           /\ ~obs.link_touched
           /\ results = << >>
           /\ pc \in {"precheck", "done"}
           /\ (pc = "precheck" => events = << >>)
           /\ (pc = "done" => /\ events = <<EvFinished("ABORTED", NoSummary)>>
                              /\ ~is_running)

\* C7 witness: an aborted run
C7_Witness ==
    /\ pc = "done"
    /\ target_serial \in {"None", "closed"}
    /\ events = <<EvFinished("ABORTED", NoSummary)>>

\* the place of value x in the list xs
IndexIn(xs, x) == CHOOSE i \in 1..Len(xs) : xs[i] = x

\* the rank of a result's grid point in the traversal with voltage
\* outermost, pulse width next and delay innermost, counted from 1
GridRank(r) ==
    ((IndexIn(Voltages(config), r.voltage) - 1) * Len(PulseWidths(config))
        + (IndexIn(PulseWidths(config), r.pulse_width) - 1)) * Len(Delays(config))
    + IndexIn(Delays(config), r.delay_us)

\* the points that have been left: all begun, less the one being worked on
PointsLeft ==
    IF Phase(pc) \in {"setup", "trials"} THEN loc.step - 1 ELSE loc.step

\* C8: PointResults come in grid-traversal order, one per point that was
\* not abandoned, the point index being the point's rank in the traversal
\* and strictly increasing; each is followed at once by the one progress
\* signal of the same point, and no progress signal comes without it
C8_ResultsInGridOrder ==
    /\ \A i \in ResultEvents :
          /\ events[i].idx = Cardinality({j \in ResultEvents : j <= i})
          /\ events[i].step = GridRank(results[events[i].idx])
          /\ i < Len(events)
          /\ events[i + 1].sig = "progress"
          /\ events[i + 1].step = events[i].step
    /\ \A i \in 1..Len(events) :
          events[i].sig = "progress" => (i > 1 /\ events[i - 1].sig = "result")
    /\ \A i \in ResultEvents, j \in ResultEvents :
          i < j => events[i].step < events[j].step
    /\ Cardinality(ResultEvents) = Len(results)
    /\ Len(results) = PointsLeft - obs.abandoned

\* C8 witness: a two-axis grid run to the end with a point abandoned between
\* two points that gave results
C8_Witness ==
    /\ RunEnded
    /\ Total(config) = 4
    /\ loc.step = 4
    /\ obs.abandoned = 1
    /\ Len(results) = 3
    /\ GridRank(results[1]) = 1
    /\ GridRank(results[2]) = 3

\* the step is a trial whose exchange gave a response that is classified
\* (neither None nor a reset): the observed value is kept in last_ct
ClassifiedTrial ==
    /\ pc = "exchange"
    /\ pc' = "trial_check"
    /\ loc'.error = loc.error

\* C13: a trial is counted as a glitch exactly when the current baseline is
\* present and non-empty, the observed ciphertext is non-empty and the two
\* differ as strings; in every other case it is counted as normal
C13_GlitchIffDiffers ==
    [][ClassifiedTrial =>
          LET bl == loc.baseline_ct
              ct == loc'.last_ct
          IN  IF bl # NoneVal /\ bl # << >> /\ ct # << >> /\ ct # bl
              THEN loc'.glitch = loc.glitch + 1 /\ loc'.normal = loc.normal
              ELSE loc'.glitch = loc.glitch /\ loc'.normal = loc.normal + 1]_vars

\* C13 witness: with baseline AA one trial observed AA and was counted
\* normal, the next observed BB and was counted a glitch
C13_Witness ==
    /\ pc = "trial_check"
    /\ loc.baseline_ct = <<"AA">>
    /\ loc.last_ct = <<"BB">>
    /\ loc.glitch = 1
    /\ loc.normal = 1

\* the four counters of the point being sampled, added up
CounterSum(l) == l.glitch + l.normal + l.error + l.reset

\* the step is one trial of the pulse loop: the exchange and what follows
\* from its response
TrialStep == pc = "exchange" /\ pc' # "exchange"

\* the result signal of the grid point the loops stand at, if it has one
CurrentResult ==
    {i \in ResultEvents : events[i].step = loc.step}

\* C14, every state: an emitted PointResult has total = glitches + normal +
\* errors + resets, that total is the number of trials the point ran and is
\* at most pulses_per_point, and it is pulses_per_point when no stop was
\* requested and no re-arm failed during the point
C14_TotalsInv ==
    /\ Phase(pc) = "trials" => CounterSum(loc) = obs.trials_done
    /\ \A i \in ResultEvents :
          LET r == results[events[i].idx]
          IN  /\ r.total = r.glitches + r.normal + r.errors + r.resets
              /\ r.total = events[i].trials
              /\ r.total <= config.pulses_per_point
    /\ \A i \in CurrentResult :
          (~stop_requested /\ ~obs.rearm_failed)
              => results[events[i].idx].total = config.pulses_per_point

\* C14: every trial increments exactly one of the point's four counters,
\* so every emitted PointResult satisfies total = glitches + normal +
\* errors + resets <= pulses_per_point, with equality when no stop was
\* requested and no re-arm failed during the point
C14_OneCounterPerTrial ==
    /\ []C14_TotalsInv
    /\ [][TrialStep =>
            /\ CounterSum(loc') = CounterSum(loc) + 1
            /\ loc'.glitch >= loc.glitch
            /\ loc'.normal >= loc.normal
            /\ loc'.error >= loc.error
            /\ loc'.reset >= loc.reset]_vars

\* C14 witness: baseline AA and three trials of which the last observed BB:
\* one glitch, two normal, no error, no reset, rate 33.3%
C14_Witness ==
    /\ RunEnded
    /\ config.pulses_per_point = 3
    /\ Len(results) = 1
    /\ results[1].baseline_ct = <<"AA">>
    /\ results[1].last_ct = <<"BB">>
    /\ results[1].glitches = 1
    /\ results[1].normal = 2
    /\ results[1].errors = 0
    /\ results[1].resets = 0
    /\ results[1].total = 3
    /\ results[1].rate = [fmt |-> "{:.1f}%", tenths |-> 333]

\* C15: a trial whose exchange returned Reset increments the point's reset
\* counter and the run's reset counter, then the baseline step is run again
\* and then clear-and-arm is attempted, both before any further trial of the
\* point; when that clear-and-arm fails no further trial of the point is
\* run and the PointResult with the counts so far, this reset among them,
\* is still emitted
C15_ResetRecovery ==
    /\ pc \in {"trial_check", "exchange"} =>
          /\ obs.rebaselines = loc.reset
          /\ obs.rearms = loc.reset
          /\ ~obs.rearm_failed
    /\ pc = "rebaseline" =>
          /\ loc.reset = obs.rebaselines + 1
          /\ obs.rearms = obs.rebaselines
          /\ ~obs.rearm_failed
    /\ pc = "rearm" =>
          /\ loc.reset = obs.rebaselines
          /\ loc.reset = obs.rearms + 1
          /\ ~obs.rearm_failed
    /\ reset_count = SumOf(results, "resets")
                        + (IF Phase(pc) = "trials" THEN loc.reset ELSE 0)
    /\ obs.rearm_failed =>
          IF pc = "aggregate"
          THEN /\ loc.reset = obs.rebaselines
               /\ loc.reset = obs.rearms + 1
               /\ CounterSum(loc) = obs.trials_done
          ELSE \E i \in CurrentResult :
                  LET r == results[events[i].idx]
                  IN  /\ r.resets = obs.rebaselines
                      /\ r.resets = obs.rearms + 1
                      /\ r.total = obs.trials_done
                      /\ r.total = events[i].trials

\* C15 witness: of three trials the first was normal and the second met a
\* target reset whose re-arm failed; the third was not run and the result
\* holds the two
C15_Witness ==
    /\ RunEnded
    /\ obs.rearm_failed
    /\ config.pulses_per_point = 3
    /\ Len(results) = 1
    /\ results[1].normal = 1
    /\ results[1].resets = 1
    /\ results[1].total = 2
    /\ reset_count = 1

\* the progress signals of the grid point the loops stand at
CurrentProgress ==
    {i \in 1..Len(events) : events[i].sig = "progress" /\ events[i].step = loc.step}

\* C16: when a parameter write of a grid point raises (device reset or
\* ordinary error) or its clear-and-arm fails (device reset, or three
\* attempts used up), the point is left at once: no trial exchange is made
\* for it, no PointResult and no progress signal is emitted for it, and the
\* run goes back to the loop head for the next point; the run ends only
\* with the grid exhausted or a stop requested
C16_AbandonedPoint ==
    /\ obs.setup_failed =>
          /\ Phase(pc) \notin {"setup", "trials"}
          /\ obs.trials_done = 0
          /\ CurrentResult = {}
          /\ CurrentProgress = {}
    /\ (target_serial = "open" /\ pc \in {"final_disarm", "finish", "done"}) =>
          (loc.step = Total(config) \/ stop_requested)

\* C16 witness: the first of two points was abandoned, the second gave the
\* one result of the run, which ended COMPLETE
C16_Witness ==
    /\ RunEnded
    /\ Total(config) = 2
    /\ obs.abandoned = 1
    /\ Len(results) = 1
    /\ GridRank(results[1]) = 2
    /\ results[1].total = 1
    /\ LastEvent.tag = "COMPLETE"

\* C17 as stated: whenever a grid point has begun while the baseline is
\* missing or empty, the baseline-unavailable warning has been emitted
C17_DegradedModeWarned ==
    (loc.step >= 1 /\ ~Truthy(loc.baseline_ct)) => logs["no_baseline"] >= 1

\* C18 as stated: when the initial baseline step obtained no baseline (the
\* warning was emitted), no PointResult of the run has glitches > 0
C18_NeverGlitchAfterFailedBaseline ==
    logs["no_baseline"] >= 1 =>
        \A i \in 1..Len(results) : results[i].glitches = 0

\* C18 amended, every state: while the baseline is missing or empty no trial
\* is counted as a glitch, and a PointResult emitted without a baseline has
\* glitches = 0
C18_NoBaselineInv ==
    /\ (Phase(pc) = "trials" /\ ~Truthy(loc.baseline_ct)) => loc.glitch = 0
    /\ \A i \in 1..Len(results) :
          results[i].baseline_ct = << >> => results[i].glitches = 0

\* C18 amended: when the initial baseline step obtains no baseline the run
\* goes on and every trial is counted normal for as long as the baseline is
\* missing: no PointResult emitted without a baseline has glitches > 0; the
\* baseline changes during the grid iteration only when the baseline step
\* re-run after a target reset obtains a non-empty one, and from then on
\* glitches are detected again
C18_NormalUntilRebaselined ==
    /\ []C18_NoBaselineInv
    /\ [][(loc.step >= 1 /\ loc'.baseline_ct # loc.baseline_ct) =>
             (pc = "rebaseline" /\ Truthy(loc'.baseline_ct))]_vars

\* C18 witness: the initial baseline step failed and was warned of, and a
\* point whose trial observed BB was emitted with no baseline, one normal
\* and no glitch
C18_Witness ==
    /\ RunEnded
    /\ logs["no_baseline"] = 1
    /\ Len(results) >= 1
    /\ results[1].baseline_ct = << >>
    /\ results[1].last_ct = <<"BB">>
    /\ results[1].normal >= 1
    /\ results[1].glitches = 0

\* the numbers of the terminal summary agree with the emitted results
SummaryTotalsAgree ==
    /\ LastEvent.sum.total_g = SumOf(results, "glitches")
    /\ LastEvent.sum.total_r = SumOf(results, "resets")
    /\ LastEvent.sum.sensitive =
          Cardinality({i \in 1..Len(results) : results[i].glitches > 0})
    /\ LastEvent.sum.step = loc.step
    /\ LastEvent.sum.total = Total(config)

\* C19 as stated: the terminal summary is tagged COMPLETE exactly when
\* every grid point was visited and STOPPED exactly when the run ended
\* before visiting all points, and its glitch total, reset total and
\* sensitive-point count are those of the emitted results
C19_TagTellsCoverage ==
    RunEnded =>
        /\ LastEvent.sig = "finished"
        /\ LastEvent.tag = "COMPLETE" <=> LastEvent.sum.step = LastEvent.sum.total
        /\ LastEvent.tag = "STOPPED" <=> LastEvent.sum.step < LastEvent.sum.total
        /\ SummaryTotalsAgree

\* the part of C19 the code keeps: the totals, COMPLETE only with the whole
\* grid visited, and STOPPED whenever it was not
C19_TotalsAndOneWay ==
    RunEnded =>
        /\ LastEvent.sig = "finished"
        /\ LastEvent.tag \in {"COMPLETE", "STOPPED"}
        /\ LastEvent.tag = "COMPLETE" => LastEvent.sum.step = LastEvent.sum.total
        /\ LastEvent.sum.step < LastEvent.sum.total => LastEvent.tag = "STOPPED"
        /\ SummaryTotalsAgree

\* ------------------------------------------------------------------------
\* Properties of the grid construction (checked under GridSpec)
\* ------------------------------------------------------------------------
\* the values start, start + step, ... that do not exceed end
AxisValues(start, end, step) ==
    {v \in start..end : (v - start) % step = 0}

\* the list an axis is to yield: when active the values of the axis in
\* ascending order, starting at start and ending at end if whole steps
\* reach it; when inactive the one value start
AxisListOk(active, xs, start, end, step) ==
    IF active
    THEN /\ Len(xs) = Cardinality(AxisValues(start, end, step))
         /\ \A i \in 1..Len(xs) : xs[i] = start + (i - 1) * step
         /\ \A i \in 1..Len(xs) : xs[i] \in AxisValues(start, end, step)
         /\ (end - start) % step = 0 => xs[Len(xs)] = end
    ELSE xs = <<start>>

\* C20: an active axis yields exactly start, start + step, ... up to and
\* including end when whole steps reach it, an inactive axis exactly
\* [start] whatever its end and step; the total reported is the product of
\* the three list lengths and is the number of grid points the loops visit
\* in a run that is never stopped, each point of the grid once
C20_GridConstruction ==
    /\ AxisListOk("voltage" \in config.sweep_axes, Voltages(config),
                  config.v_start, config.v_end, config.v_step)
    /\ AxisListOk("pulse_width" \in config.sweep_axes, PulseWidths(config),
                  config.pw_start, config.pw_end, config.pw_step)
    /\ AxisListOk("delay" \in config.sweep_axes, Delays(config),
                  config.delay_start, config.delay_end, config.delay_step)
    /\ loc.step <= Len(Voltages(config)) * Len(PulseWidths(config)) * Len(Delays(config))
    /\ \A i \in 1..Len(results) : GridRank(results[i]) = i
    /\ pc = "done" =>
          /\ LastEvent.sig = "finished"
          /\ LastEvent.sum.total =
                Len(Voltages(config)) * Len(PulseWidths(config)) * Len(Delays(config))
          /\ loc.step = LastEvent.sum.total
          /\ LastEvent.sum.step = LastEvent.sum.total
          /\ Len(results) = LastEvent.sum.total

\* C20 witness: the voltage axis alone is active with start 200, end 400,
\* step 50; the inactive axes have an end above their start; the run visited
\* the five points 200, 250, 300, 350, 400
C20_Witness ==
    /\ pc = "done"
    /\ config.sweep_axes = {"voltage"}
    /\ config.pw_end > config.pw_start
    /\ config.delay_end > config.delay_start
    /\ Voltages(config) = <<200, 250, 300, 350, 400>>
    /\ PulseWidths(config) = <<config.pw_start>>
    /\ Delays(config) = <<config.delay_start>>
    /\ LastEvent.sum.total = 5
    /\ [i \in 1..5 |-> results[i].voltage] = <<200, 250, 300, 350, 400>>

\* ------------------------------------------------------------------------
\* Properties of the grid built from backward ranges (ReversedGridSpec)
\* ------------------------------------------------------------------------
\* an axis list is clamped: it is not empty, and for an active axis whose
\* end is below its start it is the one value start
AxisClamped(active, xs, start, end) ==
    /\ xs # << >>
    /\ (active /\ end < start) => xs = <<start>>

\* C21 as stated: in every run that has built its grid each axis list is
\* non-empty, an active axis whose range is empty having been replaced by
\* the list of its start value alone, so the grid has at least one point
C21_AxisListsNonEmpty ==
    pc \notin {"idle", "precheck"} =>
        /\ AxisClamped("voltage" \in config.sweep_axes, Voltages(config),
                       config.v_start, config.v_end)
        /\ AxisClamped("pulse_width" \in config.sweep_axes, PulseWidths(config),
                       config.pw_start, config.pw_end)
        /\ AxisClamped("delay" \in config.sweep_axes, Delays(config),
                       config.delay_start, config.delay_end)
        /\ Total(config) >= 1

\* ------------------------------------------------------------------------
\* Properties of the main window with the sweep thread (CallerSpec)
\* ------------------------------------------------------------------------
\* C22 as stated: while a sweep is marked as running the window sends no
\* command of its own to the pulse device or to the target link: the fault,
\* arm-state, serial-read and repeat-send timers are all stopped, whatever
\* the user does, and nothing was sent since the start request
C22_NoCompetingCommand ==
    gui.sweep_running =>
        /\ ~gui.fault_timer
        /\ ~gui.arm_state_timer
        /\ ~gui.serial_timer
        /\ ~gui.repeat_send_timer
        /\ ~gui.commanded

\* C23: at most one sweep is active. A start request is emitted only when
\* every earlier one has had its terminal signal handled, sweep_running is
\* set exactly while a request is outstanding, and when start_sweep is
\* entered for a run the terminal signals of all earlier runs have been
\* emitted and handled
C23_AtMostOneSweep ==
    /\ gui.start_emitted <= gui.finished_seen + 1
    /\ gui.sweep_running <=> (gui.start_emitted = gui.finished_seen + 1)
    /\ gui.start_delivered <= gui.start_emitted
    /\ pc \notin {"waiting", "done"} =>
           /\ gui.start_delivered = gui.start_emitted
           /\ NumFinished = gui.start_delivered - 1
           /\ gui.finished_seen = NumFinished
           /\ gui.sweep_running

\* a second sweep is running, the first having ended and been handled
C23_Witness ==
    /\ gui.start_delivered = 2
    /\ gui.finished_seen = 1
    /\ pc = "trial_check"
    /\ gui.sweep_running

\* C25 as stated: a stop request made after the start request and before
\* the terminal signal of that run is honoured: the run ends tagged
\* STOPPED, also when the stop came before start_sweep was entered
C25_StopHonoured ==
    (gui.stop_clicked /\ NumFinished = gui.start_emitted)
        => LastEvent.tag = "STOPPED"

\* ------------------------------------------------------------------------
\* The glitch rate of a point
\* ------------------------------------------------------------------------
\* the largest number of trials of the rates computed on their own
RateTrials == 8

\* rate is glitches / total * 100 written with one decimal: the nearest
\* number of tenths of a percent; or the text "0%" for no trials at all
RateOf(rate, glitches, total) ==
    IF total > 0
    THEN /\ rate.fmt = "{:.1f}%"
         /\ 2 * rate.tenths * total - 2000 * glitches <= total
         /\ 2000 * glitches - 2 * rate.tenths * total <= total
    ELSE rate = [fmt |-> "0%", tenths |-> 0]

\* C24: the rate of every PointResult is its glitch count over its total
\* (glitches, errors, normals and resets) times 100 with one decimal when
\* the total is positive and "0%" when it is zero; a point whose trials
\* were all errors has a rate of zero (written "0.0%"); and so for every
\* count up to eight trials, 2 glitches in 8 giving "25.0%"
C24_GlitchRate ==
    /\ \A i \in 1..Len(results) :
           LET r == results[i]
           IN  /\ r.total = r.glitches + r.errors + r.normal + r.resets
               /\ RateOf(r.rate, r.glitches, r.total)
               /\ (r.total > 0 /\ r.errors = r.total)
                      => r.rate = [fmt |-> "{:.1f}%", tenths |-> 0]
    /\ \A t \in 0..RateTrials : \A g \in 0..t : RateOf(FormatRate(g, t), g, t)
    /\ FormatRate(2, 8) = [fmt |-> "{:.1f}%", tenths |-> 250]

\* one point with two glitches in three trials; or a point whose only trial
\* was an error followed by a point stopped before its first trial
C24_Witness ==
    \/ /\ Len(results) = 1
       /\ results[1].glitches = 2 /\ results[1].total = 3
       /\ results[1].rate = [fmt |-> "{:.1f}%", tenths |-> 667]
    \/ /\ Len(results) = 2
       /\ results[1].errors = 1 /\ results[1].total = 1
       /\ results[1].rate = [fmt |-> "{:.1f}%", tenths |-> 0]
       /\ results[2].total = 0
       /\ results[2].rate = [fmt |-> "0%", tenths |-> 0]

\* ------------------------------------------------------------------------
\* Response to a stop during the grid iteration
\* ------------------------------------------------------------------------
\* the worker is inside the grid iteration
InGrid(p) == Phase(p) \in {"between", "setup", "trials"}

\* C26: once the stop flag is set during the grid iteration at most one
\* more PointResult is emitted and at most one more trial exchange is made,
\* and the run goes on to emit its terminal signal tagged STOPPED
C26_BoundedStop ==
    /\ [](obs.stop_at \in {"between", "setup", "trials"}
            => /\ Len(results) - obs.stop_nres <= 1
               /\ obs.exch_after_stop <= 1)
    /\ ((stop_requested /\ InGrid(pc))
            ~> (pc = "done" /\ LastEvent.sig = "finished"
                   /\ LastEvent.tag = "STOPPED"))

\* a run stopped inside a pulse loop that made one more exchange, emitted
\* that point's result and ended
C26_Witness ==
    /\ RunEnded
    /\ obs.stop_at = "trials"
    /\ obs.exch_after_stop = 1
    /\ Len(results) = obs.stop_nres + 1
    /\ LastEvent.tag = "STOPPED"

\* ------------------------------------------------------------------------
\* The state of the pulse device at the exchanges
\* ------------------------------------------------------------------------
\* C27 as stated: every step that establishes the baseline (the baseline
\* step before the grid) or replaces it (the re-baseline after a target
\* reset) is taken with the pulse device disarmed
C27_BaselineWhileDisarmed ==
    [][(pc \in {"baseline", "rebaseline"} /\ loc'.baseline_ct # loc.baseline_ct)
          => ~dev.armed]_vars

\* C28 as stated: on a device with a trigger offset, in a delay sweep, at
\* every trial exchange the offset programmed on the device is the delay of
\* the grid point, also at a point of delay 0 that follows a point of a
\* delay above 0
C28_OffsetIsPointDelay ==
    (pc = "exchange" /\ dev.has_offset /\ "delay" \in config.sweep_axes)
        => dev.offset = CurDelay

\* C29: a trial exchange is made only when a clear-and-arm of the point
\* has succeeded and the engine has not disarmed since; after a failed
\* setup of the point (its initial arm included) no trial of it runs, and
\* after a failed re-arm the pulse loop of the point is over
C29_ExchangeOnlyWhenArmed ==
    /\ pc = "exchange" => obs.arm_ok
    /\ obs.setup_failed => (Phase(pc) # "trials" /\ obs.trials_done = 0)
    /\ obs.rearm_failed
           => pc \notin {"trial_check", "exchange", "rebaseline", "rearm"}

\* a re-arm after a target reset has failed at a point that had run a trial
C29_Witness ==
    /\ pc = "aggregate"
    /\ obs.rearm_failed
    /\ ~obs.arm_ok
    /\ obs.trials_done >= 1

\* ------------------------------------------------------------------------
\* _try_clear_and_arm
\* ------------------------------------------------------------------------
\* the step is one attempt of _try_clear_and_arm: the call returns or its
\* loop goes round
ArmAttemptStep ==
    /\ pc \in {"arm", "rearm"}
    /\ (pc' # pc \/ loc'.attempt # loc.attempt)

\* the step ends the call with True: the trials go on
ArmReturnsTrue ==
    /\ pc' = "trial_check"
    /\ loc'.attempt = 0
    /\ obs'.arm_ok
    /\ dev'.armed

\* the step ends the call with False: the point is skipped, or its pulse
\* loop is broken
ArmReturnsFalse ==
    /\ pc' = IF pc = "arm" THEN "d_loop" ELSE "aggregate"
    /\ loc'.attempt = 0
    /\ IF pc = "arm" THEN obs'.setup_failed ELSE obs'.rearm_failed

\* the step goes round the loop for another attempt
ArmRetries ==
    /\ pc' = pc
    /\ loc'.attempt = loc.attempt + 1

\* C30: _try_clear_and_arm makes at most three attempts. An attempt whose
\* fault clear and arm both succeed ends the call with True and arms the
\* device; one in which the device signals a reset ends it with False at
\* once; any other failure leads to another attempt, and at the third to
\* False. The call always returns True or False to start_sweep
C30_TryClearAndArm ==
    [][ArmAttemptStep =>
          /\ loc.attempt < ARM_ATTEMPTS
          /\ obs'.arm_last # NoAttempt
          /\ ArmReturnsTrue \/ ArmReturnsFalse \/ ArmRetries
          /\ obs'.arm_last = "ok" <=> ArmReturnsTrue
          /\ obs'.arm_last = "reset" => ArmReturnsFalse
          /\ (obs'.arm_last = "error" /\ loc.attempt + 1 < ARM_ATTEMPTS)
                 => ArmRetries
          /\ (obs'.arm_last = "error" /\ loc.attempt + 1 = ARM_ATTEMPTS)
                 => ArmReturnsFalse]_vars

\* the third attempt has failed as the two before it, and the point was
\* skipped
C30_Witness ==
    /\ pc = "d_loop"
    /\ obs.setup_failed
    /\ obs.arm_last = "error"
    /\ obs.abandoned = 1

\* ------------------------------------------------------------------------
\* _safe_disarm
\* ------------------------------------------------------------------------
\* the step is one attempt of _safe_disarm: the call returns or its loop
\* goes round
DisarmAttemptStep ==
    /\ pc \in {"disarm", "final_disarm"}
    /\ (pc' # pc \/ loc'.attempt # loc.attempt)

\* the step ends the call: start_sweep goes on after it
DisarmReturns ==
    /\ pc' = IF pc = "disarm" THEN "set_voltage" ELSE "finish"
    /\ loc'.attempt = 0

\* the step goes round the loop for another attempt
DisarmRetries ==
    /\ pc' = pc
    /\ loc'.attempt = loc.attempt + 1

\* C31: _safe_disarm makes at most three attempts; an attempt that succeeds
\* disarms the device and ends the call; a failure, ordinary or a device
\* reset, leads to another attempt and at the third to a normal return, so
\* nothing is ever raised to start_sweep; a failed attempt writes nothing:
\* the device is as it was, but for a device that has reset itself
C31_SafeDisarm ==
    [][DisarmAttemptStep =>
          /\ loc.attempt < DISARM_ATTEMPTS
          /\ obs'.disarm_last # NoAttempt
          /\ DisarmReturns \/ DisarmRetries
          /\ obs'.disarm_last = "ok" => (DisarmReturns /\ ~dev'.armed)
          /\ (obs'.disarm_last # "ok" /\ loc.attempt + 1 < DISARM_ATTEMPTS)
                 => DisarmRetries
          /\ (obs'.disarm_last # "ok" /\ loc.attempt + 1 = DISARM_ATTEMPTS)
                 => DisarmReturns
          /\ obs'.disarm_last = "failed"
                 => dev' \in {dev, DevRaised(dev, "reset")}]_vars

\* the third attempt has failed and the call has returned to the point's
\* setup with the device still armed
C31_Witness ==
    /\ pc = "set_voltage"
    /\ obs.disarm_last = "failed"
    /\ dev.armed

\* ------------------------------------------------------------------------
\* The terminal signal and is_running
\* ------------------------------------------------------------------------
\* the sweep_finished signals among the signals
FinishedEvents == {i \in 1..Len(events) : events[i].sig = "finished"}

\* C32: each call of start_sweep emits exactly one sweep_finished signal,
\* after which it emits nothing; is_running is true from the entry of the
\* call up to the emission, where it is false
C32_OneTerminalEvent ==
    /\ pc \notin {"idle", "done"} => (is_running /\ FinishedEvents = {})
    /\ pc = "idle" => events = << >>
    /\ pc = "done" => /\ FinishedEvents = {Len(events)}
                      /\ ~is_running

\* a run that emitted results and progress lines has ended
C32_Witness ==
    /\ RunEnded
    /\ Len(events) >= 5
    /\ Len(results) = 2
    /\ ~is_running

\* ------------------------------------------------------------------------
\* The fixed burst parameters
\* ------------------------------------------------------------------------
\* a step that executes the writes of pulse.repeat, pulse.deadtime and mute
BurstWriteStep == obs'.burst_writes # obs.burst_writes

\* C33: the burst parameters are written in the fixed-parameter step only,
\* which a run takes once, before its first grid point
C33_BurstWrittenOnce ==
    [][BurstWriteStep =>
          /\ pc = "fixed"
          /\ obs.burst_writes = 0
          /\ obs'.burst_writes = 1
          /\ loc.step = 0
          /\ results = << >>
          /\ ~obs.dev_touched]_vars

\* a run past its second grid point, the burst block executed once
C33_Witness ==
    /\ RunEnded
    /\ loc.step = 2
    /\ Len(results) = 2
    /\ obs.burst_writes = 1

\* C34 as stated: the step that writes the fixed burst parameters is taken
\* with the pulse device disarmed, whatever the armed state of the device
\* handed to start_sweep
C34_FixedWhileDisarmed ==
    [][BurstWriteStep => ~dev.armed]_vars

\* ------------------------------------------------------------------------
\* The reset counter of the run
\* ------------------------------------------------------------------------
\* C35: when start_sweep has returned, reset_count is the sum of the resets
\* of the results, each of which was emitted, and is the reset total of the
\* summary
C35_ResetCountIsSum ==
    /\ pc = "done" =>
          /\ reset_count = SumOf(results, "resets")
          /\ {events[i].idx : i \in ResultEvents} = 1..Len(results)
    /\ RunEnded => LastEvent.sum.total_r = reset_count

\* a run ended with resets counted at two points
C35_Witness ==
    /\ RunEnded
    /\ Len(results) = 2
    /\ results[1].resets > 0
    /\ results[2].resets > 0
    /\ reset_count >= 2

\* ------------------------------------------------------------------------
\* The baseline after a target reset
\* ------------------------------------------------------------------------
\* the CTs a clean exchange (DATA_END reached, CT among the fields, no reset
\* marker) can return on the links of the run
CleanCTs ==
    {GetCT(TargetExchange(x)) :
        x \in {y \in LinksFor(config) :
                  LET resp == TargetExchange(y)
                  IN  /\ resp.kind = "Data"
                      /\ CT_KEY \in DOMAIN resp.data
                      /\ ~IsReset(resp)}}

\* C36: the re-baseline after a target reset leaves baseline_ct as it is,
\* or replaces it by a non-empty CT that an exchange returned; an empty CT
\* or no CT leaves it unchanged
C36_RebaselineKeepsOrReplaces ==
    [][(pc = "rebaseline" /\ pc' # pc) =>
          \/ loc'.baseline_ct = loc.baseline_ct
          \/ /\ Truthy(loc'.baseline_ct)
             /\ loc'.baseline_ct \in CleanCTs]_vars

\* two re-baselines made at a point, a baseline in place
C36_Witness ==
    /\ pc = "rearm"
    /\ obs.rebaselines = 2
    /\ Truthy(loc.baseline_ct)

\* ------------------------------------------------------------------------
\* The trials whose exchange returns a mapping
\* ------------------------------------------------------------------------
\* the trial counted as normal or as a glitch, and as nothing else
CountedNormalOrGlitch ==
    /\ loc'.normal + loc'.glitch = loc.normal + loc.glitch + 1
    /\ loc'.error = loc.error
    /\ loc'.reset = loc.reset

\* the trial counted as normal, with last_ct the empty string
CountedNormalNoCT ==
    /\ loc'.normal = loc.normal + 1
    /\ loc'.glitch = loc.glitch
    /\ loc'.last_ct = << >>

\* _target_exchange returned a dict other than the {'_reset': True} of the
\* reset marker: the fields of a DATA_END, or the partial fields at timeout
ReturnsMapping(x) == TargetExchange(x).kind = "Data"

\* C37 as stated: a trial whose exchange returns a mapping is counted as
\* normal or as a glitch; when the mapping has no CT value it is counted
\* as normal and last_ct becomes the empty string
C37_MappingIsNormalOrGlitch ==
    [][\A x \in LinksFor(config) :
          (TrialExchangeOn(x) /\ ReturnsMapping(x)) =>
              /\ CountedNormalOrGlitch
              /\ GetCT(TargetExchange(x)) = << >> => CountedNormalNoCT]_vars

\* the same for the mappings that hold no non-empty "_reset" field
C37_UnmarkedMappingIsNormalOrGlitch ==
    [][\A x \in LinksFor(config) :
          (TrialExchangeOn(x) /\ ReturnsMapping(x) /\ ~IsReset(TargetExchange(x))) =>
              /\ CountedNormalOrGlitch
              /\ GetCT(TargetExchange(x)) = << >> => CountedNormalNoCT]_vars

\* ------------------------------------------------------------------------
\* The warning of a device without trigger offset
\* ------------------------------------------------------------------------
\* a step that emits the trigger-offset warning
WarningStep == logs'["no_trigger_offset"] # logs["no_trigger_offset"]

\* the step that leaves the parameter block of a point with a delay above 0
\* on a device without trigger offset: voltage and width are written
DelayIgnoredStep ==
    /\ pc = "set_width"
    /\ pc' = "arm"
    /\ CurDelay > 0
    /\ ~dev.has_offset

\* no grid point before the current one has a delay above 0
FirstDelayPoint ==
    /\ CurDelay > 0
    /\ loc.vi = 1
    /\ loc.pwi = 1
    /\ \A j \in 1..(loc.di - 1) : Delays(config)[j] <= 0

\* C38 as stated: the warning is emitted once in a run, at the first grid
\* point with a delay above 0, on a device without trigger offset
C38_WarnedAtFirstDelayPoint ==
    [][WarningStep =>
          /\ ~dev.has_offset
          /\ logs["no_trigger_offset"] = 0
          /\ logs'["no_trigger_offset"] = 1
          /\ FirstDelayPoint]_vars

\* C38, amended: the flag is cleared at the entry of start_sweep; the
\* warning is emitted at most once in a run, at the first grid point with
\* a delay above 0 whose voltage and width were written without a failure
\* (a point abandoned before that does not warn), on a device without
\* trigger offset; from then on the flag stays set
C38_WarnedOnceWhenDelayIgnored ==
    [][/\ (pc = "idle" /\ pc' = "precheck") => ~warned_no_trigger_offset'
       /\ WarningStep =>
             /\ DelayIgnoredStep
             /\ ~warned_no_trigger_offset
             /\ logs["no_trigger_offset"] = 0
             /\ logs'["no_trigger_offset"] = 1
       /\ DelayIgnoredStep =>
             /\ warned_no_trigger_offset'
             /\ logs'["no_trigger_offset"] = 1
       /\ (DelayIgnoredStep /\ warned_no_trigger_offset) => ~WarningStep
       /\ (warned_no_trigger_offset /\ pc # "idle") => warned_no_trigger_offset']_vars

\* the warning was emitted at the second point with a delay above 0, the
\* first one having been abandoned
C38_Witness ==
    /\ pc = "arm"
    /\ warned_no_trigger_offset
    /\ logs["no_trigger_offset"] = 1
    /\ CurDelay > 0
    /\ ~FirstDelayPoint
    /\ obs.abandoned = 1

\* ------------------------------------------------------------------------
\* start_sweep called again on the same worker
\* ------------------------------------------------------------------------
\* the sweep thread is handed a _start_requested with the same arguments
\* when the call before has returned; the signals and log lines of the
\* call before have been taken by their receivers, those of the new call
\* are recorded from here on
CallAgain ==
    /\ pc \in {"waiting", "done"}
    /\ gui.start_delivered < MaxRuns
    /\ pc' = "idle"
    /\ loc' = LocInit
    /\ events' = << >>
    /\ logs' = [k \in LogKinds |-> 0]
    /\ gui' = [gui EXCEPT !.start_emitted = @ + 1, !.start_delivered = @ + 1]
    /\ UNCHANGED <<config, target_serial, dev, stop_requested, is_running,
                   results, reset_count, warned_no_trigger_offset, obs,
                   x_in, x_resp>>

\* the worker as constructed, with the arguments of the calls: a delay
\* sweep of two points with one trial each, on any device
InitRerun ==
    /\ pc = "waiting"
    /\ config = MakeConfig({"delay"}, 1)
    /\ target_serial = "open"
    /\ dev \in Devices(config)
    /\ stop_requested = FALSE
    /\ is_running = FALSE
    /\ results = << >>
    /\ reset_count = 0
    /\ warned_no_trigger_offset = FALSE
    /\ loc = LocInit
    /\ events = << >>
    /\ logs = [k \in LogKinds |-> 0]
    /\ obs = ObsInit
    /\ x_in = Link(TRUE, << >>, "timeout")
    /\ x_resp = RespPending
    /\ gui = GuiInit

NextRerun ==
    \/ CallAgain
    \/ Worker
    \/ StopSweep

RerunSpec == InitRerun /\ [][NextRerun]_vars

\* the per-run fields as SweepWorker.__init__ leaves them for the first call
FreshRun ==
    /\ results = << >>
    /\ reset_count = 0
    /\ ~stop_requested
    /\ ~warned_no_trigger_offset

\* C39: the step that enters start_sweep leaves the result list empty, the
\* reset counter 0, the stop flag and the warning flag clear, whatever the
\* call before left in them; with the locals new in each call, a run starts
\* from the state the first run started from, and in a later run as in the
\* first the warning is there once the delay of a point was ignored, and
\* the point results emitted are the results of the run
C39_FreshAtEntry ==
    /\ [][(pc = "idle" /\ pc' # pc) =>
             /\ results' = << >>
             /\ reset_count' = 0
             /\ ~stop_requested'
             /\ ~warned_no_trigger_offset'
             /\ is_running'
             /\ loc' = LocInit
             /\ pc' = "precheck"]_vars
    /\ []((pc = "arm" /\ CurDelay > 0 /\ ~dev.has_offset)
              => logs["no_trigger_offset"] = 1)
    /\ [](pc \notin {"waiting", "idle"}
              => Cardinality(ResultEvents) = Len(results))
    /\ [](pc = "done" => reset_count = SumOf(results, "resets"))

\* a second call about to be entered after a call that left results, counted
\* a reset, gave the warning and was stopped
C39_Witness ==
    /\ pc = "idle"
    /\ gui.start_delivered = 2
    /\ results # << >>
    /\ reset_count > 0
    /\ stop_requested
    /\ warned_no_trigger_offset

\* ------------------------------------------------------------------------
\* The two serial connections of the main window
\* ------------------------------------------------------------------------
\* requests waiting in the queue of the API worker's thread
MaxQueue == 2

\* request_connect(port) and request_disconnect() as queued to the worker
ReqConnect(port) == [op |-> "connect", port |-> port]
ReqDisconnect == [op |-> "disconnect", port |-> NoPort]

\* connection_changed(connected, port) and busy_changed(busy) as queued to
\* the GUI thread
SigConnection(connected, port) ==
    [sig |-> "connection_changed", on |-> connected, port |-> port]
SigBusy(busy) == [sig |-> "busy_changed", on |-> busy, port |-> NoPort]

\* the signals of one request handled by the worker: _set_busy(True),
\* _set_connected(connected, port) which emits on a change only, and
\* _set_busy(False)
WorkerSignals(g, connected, port) ==
    <<SigBusy(TRUE)>>
        \o (IF g.w_connected # connected \/ g.w_port # port
            THEN <<SigConnection(connected, port)>> ELSE << >>)
        \o <<SigBusy(FALSE)>>

\* _connect_api from its button (enabled when not connected and not busy)
\* with `port` selected: refused when the terminal holds the port, otherwise
\* request_connect is queued to the worker
ConnectApi(port) ==
    /\ ~gui.api_connected
    /\ ~gui.api_busy
    /\ Len(gui.to_worker) < MaxQueue
    /\ gui' = IF gui.terminal_connected /\ gui.terminal_port = port
              THEN gui
              ELSE [gui EXCEPT !.to_worker = Append(@, ReqConnect(port))]
    /\ UNCHANGED <<engine_vars, x_in, x_resp>>

\* _disconnect_api from its button (enabled when connected and not busy)
DisconnectApi ==
    /\ gui.api_connected
    /\ ~gui.api_busy
    /\ Len(gui.to_worker) < MaxQueue
    /\ gui' = [gui EXCEPT !.to_worker = Append(@, ReqDisconnect)]
    /\ UNCHANGED <<engine_vars, x_in, x_resp>>

\* ShouterWorker.connect_device(port) on the worker thread: ChipSHOUTER(port)
\* succeeds or raises
ConnectDevice ==
    /\ gui.to_worker # << >>
    /\ Head(gui.to_worker).op = "connect"
    /\ Len(gui.to_gui) <= 3 * MaxQueue
    /\ \E ok \in BOOLEAN :
        LET port == IF ok THEN Head(gui.to_worker).port ELSE NoPort
        IN  gui' = [gui EXCEPT !.to_worker = Tail(@),
                               !.w_connected = ok,
                               !.w_port = port,
                               !.to_gui = @ \o WorkerSignals(gui, ok, port)]
    /\ UNCHANGED <<engine_vars, x_in, x_resp>>

\* ShouterWorker.disconnect_device() on the worker thread
DisconnectDevice ==
    /\ gui.to_worker # << >>
    /\ Head(gui.to_worker).op = "disconnect"
    /\ Len(gui.to_gui) <= 3 * MaxQueue
    /\ gui' = [gui EXCEPT !.to_worker = Tail(@),
                          !.w_connected = FALSE,
                          !.w_port = NoPort,
                          !.to_gui = @ \o WorkerSignals(gui, FALSE, NoPort)]
    /\ UNCHANGED <<engine_vars, x_in, x_resp>>

\* the GUI thread handles the next signal of the worker:
\* _on_api_connection_changed or _on_api_busy_changed
OnWorkerSignal ==
    /\ gui.to_gui # << >>
    /\ LET m == Head(gui.to_gui)
           g == [gui EXCEPT !.to_gui = Tail(@)]
       IN  gui' = IF m.sig = "connection_changed"
                  THEN ApiConnectionChanged(g, m.on, m.port)
                  ELSE [g EXCEPT !.api_busy = m.on]
    /\ UNCHANGED <<engine_vars, x_in, x_resp>>

NextPorts ==
    \/ \E port \in Ports : ConnectApi(port)
    \/ DisconnectApi
    \/ ConnectDevice
    \/ DisconnectDevice
    \/ OnWorkerSignal
    \/ \E port \in Ports : ConnectTerminalOn(port)
    \/ DisconnectTerminal

\* the window as constructed; no sweep is started
PortSpec == InitCaller /\ [][NextPorts]_vars

\* C40 as stated: in every reachable state the API connection and the
\* Serial Terminal connection are not both connected to the same port
C40_PortMutex ==
    ~(/\ gui.api_connected
      /\ gui.terminal_connected
      /\ gui.api_port = gui.terminal_port)

====
